---- MODULE Spec2Model ----
(***************************************************************************)
(* A model of the event validation assistant: the time format validator,   *)
(* its rule library and the App component that keeps every event's         *)
(* validity fields in step with the reference libraries.                   *)
(*                                                                         *)
(* A JavaScript string is a sequence of characters.  A character is a      *)
(* one-element token; the CJK characters of the source are written in      *)
(* pinyin:  月 "yue", 日 "ri", 年 "nian", 至 "zhi", 全 "quan", 每 "mei",   *)
(* 周 "zhou", 一 "yi", 二 "er", 三 "san", 四 "si", 五 "wu", 六 "liu",      *)
(* 上 "shang", 中 "zhong", 下 "xia", 旬 "xun", 、 "dun", the fullwidth     *)
(* brackets （ "fl" and ） "fr", and "x" for any other character.           *)
(***************************************************************************)
EXTENDS Integers, Sequences, FiniteSets, TLC

VARIABLES
    \* ---- the call of validateTimeFormat under check
    timeStr,        \* its first argument
    formats,        \* its second argument, a rule library
    result,         \* what it returned, NoResult before the call
    vpc,            \* "idle" (not in use), "call" or "done"
    \* ---- App (src/unnamed/part_000)
    events,         \* useState<AppEvent[]>
    locations,      \* useState<AddressLibraryItem[]>
    timeFormats,    \* useState<TimeFormatItem[]>
    reads,          \* FileReader reads in flight, each with the render it closed over
    clicks,         \* the inputs the operator has made so far
    \* ---- the call of another function under check
    call,           \* the function and its arguments, NoCall when none is checked
    ret,            \* what it returned, NoReturn before it returns
    \* ---- PosterValidator (src/components/PosterValidator.tsx)
    posterImage,        \* useState<string | null>
    excelData,          \* useState<AppEvent[]>
    posterData,         \* useState<Partial<AppEvent>[]>
    validationResults,  \* useState<ValidationResult[] | null>
    isAnalyzing,        \* useState(false)
    requests            \* calls of analyzePoster waiting for generateContent

posterVars == <<posterImage, excelData, posterData, validationResults, isAnalyzing, requests>>

vars == <<timeStr, formats, result, vpc, events, locations, timeFormats, reads, clicks,
          call, ret, posterVars>>

(***************************************************************************)
(* Characters and strings                                                  *)
(***************************************************************************)
Digits == {"0", "1", "2", "3", "4", "5", "6", "7", "8", "9"}

\* the characters JavaScript's \s and String.prototype.trim take for white space
WhiteSpace == {" "}

DigitVal(c) ==
    CASE c = "0" -> 0 [] c = "1" -> 1 [] c = "2" -> 2 [] c = "3" -> 3
      [] c = "4" -> 4 [] c = "5" -> 5 [] c = "6" -> 6 [] c = "7" -> 7
      [] c = "8" -> 8 [] c = "9" -> 9

DigitChar(n) ==
    CASE n = 0 -> "0" [] n = 1 -> "1" [] n = 2 -> "2" [] n = 3 -> "3"
      [] n = 4 -> "4" [] n = 5 -> "5" [] n = 6 -> "6" [] n = 7 -> "7"
      [] n = 8 -> "8" [] n = 9 -> "9"

\* parseInt of a run of decimal digits
RECURSIVE parseInt(_)
parseInt(ds) ==
    IF ds = <<>> THEN 0
    ELSE parseInt(SubSeq(ds, 1, Len(ds) - 1)) * 10 + DigitVal(ds[Len(ds)])

\* String(n) for a natural number
RECURSIVE String(_)
String(n) ==
    IF n < 10 THEN <<DigitChar(n)>>
    ELSE Append(String(n \div 10), DigitChar(n % 10))

\* String.prototype.trim
RECURSIVE trim(_)
trim(s) ==
    IF s = <<>> THEN s
    ELSE IF Head(s) \in WhiteSpace THEN trim(Tail(s))
    ELSE IF s[Len(s)] \in WhiteSpace THEN trim(SubSeq(s, 1, Len(s) - 1))
    ELSE s

\* String.prototype.includes
includes(s, sub) ==
    \E i \in 0..(Len(s) - Len(sub)) : SubSeq(s, i + 1, i + Len(sub)) = sub

(***************************************************************************)
(* Regular expressions.  A pattern is the sequence of its tokens:          *)
(*   bol  ^          eol  $                                                *)
(*   cls  a literal or a character class with its quantifier {lo,hi}       *)
(*   open (          close  ) with the group's quantifier {lo,hi}          *)
(* hi = -1 stands for an unbounded quantifier, star or plus.               *)
(***************************************************************************)
Bol == [k |-> "bol", cs |-> {}, lo |-> 1, hi |-> 1]
Eol == [k |-> "eol", cs |-> {}, lo |-> 1, hi |-> 1]
Cls(cs, lo, hi) == [k |-> "cls", cs |-> cs, lo |-> lo, hi |-> hi]
Lit(c) == Cls({c}, 1, 1)
Open == [k |-> "open", cs |-> {}, lo |-> 1, hi |-> 1]
Close(lo, hi) == [k |-> "close", cs |-> {}, lo |-> lo, hi |-> hi]

\* the nesting depth after each token, -1 once a ")" closes nothing
RECURSIVE Depth(_, _)
Depth(p, d) ==
    IF p = <<>> \/ d < 0 THEN d
    ELSE Depth(Tail(p), CASE Head(p).k = "open" -> d + 1
                          [] Head(p).k = "close" -> d - 1
                          [] OTHER -> d)

\* new RegExp(pattern) throws a SyntaxError on an unbalanced bracket
RegExpThrows(p) == Depth(p, 0) # 0

\* the index in p of the ")" that closes the "(" at p[1]
RECURSIVE ClosingIndex(_, _, _)
ClosingIndex(p, i, d) ==
    IF p[i].k = "close" /\ d = 1 THEN i
    ELSE ClosingIndex(p, i + 1, CASE p[i].k = "open" -> d + 1
                                  [] p[i].k = "close" -> d - 1
                                  [] OTHER -> d)

\* the positions a class with its quantifier can reach from the positions S
StepCls(t, S, s) ==
    { j + n : <<j, n>> \in
        { jn \in S \X (0..Len(s)) :
            /\ jn[2] >= t.lo
            /\ (t.hi # -1 => jn[2] <= t.hi)
            /\ jn[1] + jn[2] <= Len(s)
            /\ \A i \in (jn[1] + 1)..(jn[1] + jn[2]) : s[i] \in t.cs } }

\* the positions in s (0..Len(s)) at which a match of p begun in S can end
RECURSIVE MatchFrom(_, _, _)
RECURSIVE Repeat(_, _, _, _, _, _)
MatchFrom(p, S, s) ==
    IF p = <<>> \/ S = {} THEN S
    ELSE LET t == Head(p) IN
         CASE t.k = "bol" -> MatchFrom(Tail(p), S \cap {0}, s)
           [] t.k = "eol" -> MatchFrom(Tail(p), S \cap {Len(s)}, s)
           [] t.k = "cls" -> MatchFrom(Tail(p), StepCls(t, S, s), s)
           [] t.k = "open" ->
                LET c == ClosingIndex(p, 1, 0)
                    body == SubSeq(p, 2, c - 1)
                IN  MatchFrom(SubSeq(p, c + 1, Len(p)),
                              Repeat(body, S, s, 0, p[c].lo, p[c].hi), s)

\* the group body repeated n times so far: the ends of lo..hi repetitions
Repeat(body, S, s, n, lo, hi) ==
    LET here == IF n >= lo THEN S ELSE {}
        more == hi = -1 \/ n < hi
    IN  IF S = {} \/ ~more \/ n > lo + Len(s) THEN here
        ELSE here \cup Repeat(body, MatchFrom(body, S, s), s, n + 1, lo, hi)

\* RegExp.prototype.test without flags: a match may begin anywhere
RegExpTest(p, s) == MatchFrom(p, 0..Len(s), s) # {}

(***************************************************************************)
(* constants.ts: the built-in rule library                                 *)
(***************************************************************************)
D12 == Cls(Digits, 1, 2)        \* \d{1,2}
D4 == Cls(Digits, 4, 4)         \* \d{4}
MD == <<D12, Lit("yue"), D12, Lit("ri")>>               \* \d{1,2}月\d{1,2}日
YMD == <<D4, Lit("nian")>> \o MD                        \* \d{4}年\d{1,2}月\d{1,2}日
DashOrSpace == Cls({"-"} \cup WhiteSpace, 1, -1)        \* [-\s]+
HM == <<D12, Lit(":"), Cls(Digits, 2, 2)>>              \* \d{1,2}:\d{2}

Rule(id, name, pattern, isSystem) ==
    [id |-> id, name |-> name, pattern |-> pattern, isSystem |-> isSystem]

INITIAL_TIME_FORMATS == <<
    Rule(1, "XyueXri", <<Bol>> \o MD \o <<Eol>>, TRUE),
    Rule(2, "XyueXri-XyueXri", <<Bol>> \o MD \o <<DashOrSpace>> \o MD \o <<Eol>>, TRUE),
    Rule(3, "Xyue", <<Bol, D12, Lit("yue"), Eol>>, TRUE),
    Rule(4, "Xyue-shang/zhong/xia-xun",
         <<Bol, D12, Lit("yue"), Cls({"shang", "zhong", "xia"}, 1, 1), Lit("xun"), Eol>>, TRUE),
    Rule(5, "meizhou",
         <<Bol, Lit("mei"), Lit("zhou"),
           Cls({"yi", "er", "san", "si", "wu", "liu", "ri", "dun"} \cup WhiteSpace, 1, -1)>>
         \o HM \o <<Lit("-")>> \o HM \o <<Eol>>, TRUE),
    Rule(6, "duoriqi",
         <<Bol>> \o MD \o <<Open, Cls({"dun"} \cup WhiteSpace, 1, -1)>> \o MD
         \o <<Close(0, -1), Eol>>, TRUE),
    Rule(7, "Xyue-Xyue", <<Bol, D12, Lit("yue"), Lit("-"), D12, Lit("yue"), Eol>>, TRUE),
    Rule(8, "quannian", <<Bol, Lit("quan"), Lit("nian"), Eol>>, TRUE),
    Rule(9, "XnianXyueXri-XnianXyueXri",
         <<Bol>> \o YMD \o <<DashOrSpace>> \o YMD \o <<Eol>>, TRUE),
    Rule(10, "XnianXyueXri", <<Bol>> \o YMD \o <<Eol>>, TRUE) >>

(***************************************************************************)
(* constants.ts: checkLogicalValidity                                      *)
(***************************************************************************)
\* skips \s* from position i (1-based index of the next character)
RECURSIVE SkipSpace(_, _)
SkipSpace(s, i) ==
    IF i <= Len(s) /\ s[i] \in WhiteSpace THEN SkipSpace(s, i + 1) ELSE i

IsDigitAt(s, i) == i >= 1 /\ i <= Len(s) /\ s[i] \in Digits

DateSeparators == {"yue", ".", "/", "-"}        \* [月\.\/-]

\* a if it is not empty, b otherwise
OrElse(a, b) == IF a # <<>> THEN a ELSE b

\* [日]? at index f: the index after the match
DayMarkAt(s, f) == IF f <= Len(s) /\ s[f] = "ri" THEN f + 1 ELSE f

\* the second group (\d{1,2}) at g..(e - 1), then \s*[日]?
DateSecondGroup(s, i, n, g, e) ==
    << parseInt(SubSeq(s, i, i + n - 1)), parseInt(SubSeq(s, g, e - 1)),
       DayMarkAt(s, SkipSpace(s, e)) >>

\* [月\.\/-] at index j, \s*, then the second group from index g
DateSeparatorAt(s, i, n, j, g) ==
    IF ~(j <= Len(s) /\ s[j] \in DateSeparators) \/ ~IsDigitAt(s, g) THEN <<>>
    ELSE DateSecondGroup(s, i, n, g, IF IsDigitAt(s, g + 1) THEN g + 2 ELSE g + 1)

\* \s* from index j, the separator, \s*
DateAfterFirstGroup(s, i, n, j) == DateSeparatorAt(s, i, n, j, SkipSpace(s, j + 1))

\* dateRegex tried at index i with a first group of n digits:
\* the match [m, d, next index], or <<>> when it fails there
DateAtWith(s, i, n) ==
    IF ~(\A k \in i..(i + n - 1) : IsDigitAt(s, k)) THEN <<>>
    ELSE DateAfterFirstGroup(s, i, n, SkipSpace(s, i + n))

\* (\d{1,2}) is greedy: two digits first, one digit on backtracking
DateAt(s, i) == OrElse(DateAtWith(s, i, 2), DateAtWith(s, i, 1))

\* the loop over dateRegex.exec: every match from lastIndex i on, left to right
RECURSIVE ExtractDates(_, _)
RECURSIVE ExtractDatesAfter(_, _, _)
ExtractDates(s, i) ==
    IF i > Len(s) THEN <<>> ELSE ExtractDatesAfter(s, i, DateAt(s, i))

\* the loop after dateRegex.exec gave r at index i
ExtractDatesAfter(s, i, r) ==
    IF r = <<>> THEN ExtractDates(s, i + 1)
    ELSE <<[m |-> r[1], d |-> r[2]]>> \o ExtractDates(s, r[3])

\* mutant: February with the 28 days of a common year
daysInMonthFeb28 == <<31, 28, 31, 30, 31, 30, 31, 31, 30, 31, 30, 31>>

\* 29 for February, to be permissive of leap years
daysInMonth == <<31, 29, 31, 30, 31, 30, 31, 31, 30, 31, 30, 31>>

NoMessage == <<>>                           \* null / undefined
MsgEmpty == <<"Empty">>                     \* 时间不能为空
MsgNoFormat == <<"NoFormat">>               \* 格式不符合任何已知规则 (如: X月X日)
MsgEndBeforeStart == <<"EndBeforeStart">>   \* 结束时间不能早于开始时间
MsgMonth(m) == <<"Month", m>>               \* 月份 ${m} 无效 (需1-12)
MsgDay(m, n, d) == <<"Day", m, n, d>>       \* ${m}月只有${n}天，无法设置为${d}日

\* the first date of the list that does not exist, as the for loop finds it
RECURSIVE ExistenceError(_)
ExistenceError(dates) ==
    IF dates = <<>> THEN NoMessage
    ELSE LET date == Head(dates) IN
         IF date.m < 1 \/ date.m > 12 THEN MsgMonth(date.m)
         ELSE IF date.d < 1 \/ date.d > daysInMonth[date.m]
              THEN MsgDay(date.m, daysInMonth[date.m], date.d)
              ELSE ExistenceError(Tail(dates))

HasRangeSeparator(str) == \E i \in 1..Len(str) : str[i] \in {"-", "zhi"}   \* /[-至]/
HasYear(str) == RegExpTest(<<D4, Lit("nian")>>, str)                       \* /\d{4}年/

\* mutant: the ordering check without the test for a range separator
RangeErrorAnySeparator(dates, str) ==
    IF Len(dates) = 2
    THEN LET v1 == dates[1].m * 100 + dates[1].d
             v2 == dates[2].m * 100 + dates[2].d
         IN  IF dates[1].m = 12 /\ dates[2].m = 1 THEN NoMessage
             ELSE IF v1 > v2
                  THEN IF HasYear(str) THEN NoMessage ELSE MsgEndBeforeStart
                  ELSE NoMessage
    ELSE NoMessage

\* mutant: the ordering check without the December-to-January exception
RangeErrorNoRollover(dates, str) ==
    IF Len(dates) = 2 /\ HasRangeSeparator(str)
    THEN LET v1 == dates[1].m * 100 + dates[1].d
             v2 == dates[2].m * 100 + dates[2].d
         IN  IF v1 > v2
             THEN IF HasYear(str) THEN NoMessage ELSE MsgEndBeforeStart
             ELSE NoMessage
    ELSE NoMessage

\* mutant: the ordering check without the test for a year
RangeErrorNoYearTest(dates, str) ==
    IF Len(dates) = 2 /\ HasRangeSeparator(str)
    THEN LET v1 == dates[1].m * 100 + dates[1].d
             v2 == dates[2].m * 100 + dates[2].d
         IN  IF dates[1].m = 12 /\ dates[2].m = 1 THEN NoMessage
             ELSE IF v1 > v2 THEN MsgEndBeforeStart ELSE NoMessage
    ELSE NoMessage

RangeError(dates, str) ==
    IF Len(dates) = 2 /\ HasRangeSeparator(str)
    THEN LET start == dates[1]
             end == dates[2]
             v1 == start.m * 100 + start.d
             v2 == end.m * 100 + end.d
         IN  IF start.m = 12 /\ end.m = 1 THEN NoMessage
             ELSE IF v1 > v2
                  THEN IF HasYear(str) THEN NoMessage ELSE MsgEndBeforeStart
                  ELSE NoMessage
    ELSE NoMessage

\* the checks on the dates found in str
CheckDates(dates, str) ==
    IF Len(dates) = 0 THEN NoMessage
    ELSE OrElse(ExistenceError(dates), RangeError(dates, str))

checkLogicalValidity(str) == CheckDates(ExtractDates(str, 1), str)

(***************************************************************************)
(* constants.ts: validateTimeFormat                                        *)
(***************************************************************************)
\* the index of the first closing bracket c after index i, 0 if there is none
RECURSIVE IndexAfter(_, _, _)
IndexAfter(s, i, c) ==
    IF i >= Len(s) THEN 0
    ELSE IF s[i + 1] = c THEN i + 1 ELSE IndexAfter(s, i + 1, c)

\* timeStr.replace(...) of the bracket pattern, globally: left to right, each
\* opening bracket is removed with everything up to the first closing bracket
\* of its kind (the pattern is lazy), an unclosed one is kept
RECURSIVE StripBrackets(_)
RECURSIVE StripFrom(_, _)
StripBrackets(s) ==
    IF s = <<>> THEN s
    ELSE StripFrom(s, CASE Head(s) = "(" -> IndexAfter(s, 1, ")")
                        [] Head(s) = "fl" -> IndexAfter(s, 1, "fr")
                        [] OTHER -> 0)

\* s without the annotation that ends at index closing, if there is one
StripFrom(s, closing) ==
    IF closing # 0 THEN StripBrackets(SubSeq(s, closing + 1, Len(s)))
    ELSE <<Head(s)>> \o StripBrackets(Tail(s))

CleanStr(s) == trim(StripBrackets(s))

\* one step of formats.some(...): the try block, false when the pattern throws
FormatMatches(fmt, cleanStr) ==
    IF RegExpThrows(fmt.pattern) THEN FALSE ELSE RegExpTest(fmt.pattern, cleanStr)

\* mutant: one try block around the whole loop, so that a pattern that throws
\* ends the evaluation of the rules after it
isFormatMatchOneTry(fs, cleanStr) ==
    \E i \in 1..Len(fs) :
        /\ FormatMatches(fs[i], cleanStr)
        /\ \A j \in 1..(i - 1) : ~RegExpThrows(fs[j].pattern)

isFormatMatch(fs, cleanStr) == \E i \in 1..Len(fs) : FormatMatches(fs[i], cleanStr)

Invalid(message) == [isValid |-> FALSE, message |-> message]
Valid == [isValid |-> TRUE, message |-> NoMessage]

\* the result for the logicError of stage 2
LogicResult(logicError) == IF logicError # NoMessage THEN Invalid(logicError) ELSE Valid

\* the two stages on the cleaned string
ValidateClean(cleanStr, fs) ==
    IF ~isFormatMatch(fs, cleanStr) THEN Invalid(MsgNoFormat)
    ELSE LogicResult(checkLogicalValidity(cleanStr))

validateTimeFormat(str, fs) ==
    IF str = <<>> THEN Invalid(MsgEmpty) ELSE ValidateClean(CleanStr(str), fs)

(***************************************************************************)
(* The inputs the validator is called with                                 *)
(***************************************************************************)
MaxLen == 3         \* the longest free-form time string
MaxMonth == 13      \* month numbers 0..MaxMonth are written into dates
MaxDay == 32        \* day numbers 0..MaxDay are written into dates

FreeChars == {"1", "yue", "ri", " ", "(", ")", "x"}
FreeStrings == UNION { [1..n -> FreeChars] : n \in 0..MaxLen }

MonthDay(m, d) == String(m) \o <<"yue">> \o String(d) \o <<"ri">>       \* M月D日
Year(y) == String(y) \o <<"nian">>                                       \* Y年
SingleDates ==
    { MonthDay(m, d) : m \in 0..MaxMonth, d \in 0..MaxDay }
    \cup { Year(2024) \o MonthDay(m, d) : m \in 0..MaxMonth, d \in 0..MaxDay }

RangeMonths == {1, 2, 5, 11, 12}
RangeDays == {1, 5, 31}
RangeSeparators == {<<"-">>, <<"zhi">>, <<" ">>, <<"dun">>}
RangeDatePairs == (RangeMonths \X RangeDays) \X (RangeMonths \X RangeDays)
RangeStrings ==
    { MonthDay(pq[1][1], pq[1][2]) \o sep \o MonthDay(pq[2][1], pq[2][2]) :
        pq \in RangeDatePairs, sep \in RangeSeparators }
    \cup { Year(2024) \o MonthDay(pq[1][1], pq[1][2]) \o sep
           \o Year(2025) \o MonthDay(pq[2][1], pq[2][2]) :
        pq \in RangeDatePairs, sep \in {<<"-">>, <<" ">>} }
    \cup { MonthDay(pq[1][1], pq[1][2]) \o <<"-">> \o MonthDay(pq[2][1], pq[2][2])
           \o <<"dun">> \o MonthDay(12, 1) : pq \in RangeDatePairs }

HourMinute(h, mm) == String(h) \o <<":">> \o mm                          \* H:MM
WeeklyStrings ==
    { <<"mei", "zhou", "san">> \o sp \o HourMinute(h1, m1) \o <<"-">> \o HourMinute(h2, m2) :
        sp \in {<<>>, <<" ">>}, h1 \in {9, 14}, h2 \in {11, 31},
        m1 \in {<<"0", "0">>, <<"0", "5">>, <<"3", "0">>}, m2 \in {<<"0", "0">>, <<"3", "0">>} }

OtherStrings ==
    { <<"quan", "nian">>, <<"quan", "nian", "(", "x", ")">>, <<"5", "yue">>,
      <<"5", "yue", "-", "6", "yue">>, <<"5", "yue", "shang", "xun">>,
      <<"1", "yue", "1", "ri", "(", "x", ")">>, <<"1", "yue", "1", "ri", "fl", "x", "fr">>,
      <<"1", "yue", "1", "ri", "x">>, <<"x", "1", "yue", "1", "ri">> }

TimeStrings == FreeStrings \cup SingleDates \cup RangeStrings \cup WeeklyStrings \cup OtherStrings

\* rules an operator can add on the time format page, or from a sample string
ZhiRangeRule == Rule(11, "custom", <<Bol>> \o MD \o <<Lit("zhi")>> \o MD \o <<Eol>>, FALSE)
ThreeDateRule ==
    Rule(12, "custom", <<Bol>> \o MD \o <<Lit("-")>> \o MD \o <<Lit("dun")>> \o MD \o <<Eol>>, FALSE)
UnanchoredRule == Rule(13, "custom", <<D12, Lit("yue")>>, FALSE)        \* \d{1,2}月
\* a stored pattern that does not compile: "(" without its ")"
MalformedRule == Rule(14, "custom", <<Bol, Open, D12, Eol>>, FALSE)

RangeRules == INITIAL_TIME_FORMATS \o <<ZhiRangeRule, ThreeDateRule>>
RuleSets ==
    { <<>>, INITIAL_TIME_FORMATS, RangeRules,
      INITIAL_TIME_FORMATS \o <<UnanchoredRule>>,
      <<MalformedRule>> \o RangeRules,
      RangeRules \o <<MalformedRule>>,
      SubSeq(RangeRules, 1, 5) \o <<MalformedRule>> \o SubSeq(RangeRules, 6, 12),
      <<MalformedRule>> }

NoResult == [isValid |-> FALSE, message |-> <<"NoResult">>]

NoCall == [fn |-> "none"]
NoReturn == [done |-> FALSE]
Return(value) == [done |-> TRUE, value |-> value]

\* validationResults: null, or the results shown
NoResults == [shown |-> FALSE]
Results(value) == [shown |-> TRUE, value |-> value]

\* posterImage: null
NoImage == "null"

\* the PosterValidator as it is mounted, nothing uploaded
PosterUnused ==
    /\ posterImage = NoImage
    /\ excelData = <<>>
    /\ posterData = <<>>
    /\ validationResults = NoResults
    /\ isAnalyzing = FALSE
    /\ requests = {}

\* no function other than those of the state machine at hand is under check
CallUnused ==
    /\ call = NoCall
    /\ ret = NoReturn

(***************************************************************************)
(* SpecValidate: validateTimeFormat called once on any of the inputs       *)
(***************************************************************************)
AppUnused ==
    /\ events = <<>>
    /\ locations = <<>>
    /\ timeFormats = <<>>
    /\ reads = {}
    /\ clicks = 0
    /\ PosterUnused
    /\ CallUnused

InitValidate ==
    /\ timeStr \in TimeStrings
    /\ formats \in RuleSets
    /\ result = NoResult
    /\ vpc = "call"
    /\ AppUnused

CallValidate ==
    /\ vpc = "call"
    /\ result' = validateTimeFormat(timeStr, formats)
    /\ vpc' = "done"
    /\ UNCHANGED <<timeStr, formats, events, locations, timeFormats, reads, clicks, call, ret, posterVars>>

NextValidate == CallValidate

SpecValidate == InitValidate /\ [][NextValidate]_vars

(***************************************************************************)
(* What the claims speak of, stated apart from the code                    *)
(***************************************************************************)
Done == vpc = "done"

\* the pattern matches the string from its first to its last character
MatchesWhole(p, s) == ~RegExpThrows(p) /\ Len(s) \in MatchFrom(p, {0}, s)

\* the call got past the empty check and past stage 1
PassedStage1 == Done /\ result.message \notin {MsgEmpty, MsgNoFormat}

IsPrefix(a, s) == Len(a) <= Len(s) /\ SubSeq(s, 1, Len(a)) = a

DaysOf(m) == IF m = 2 THEN 29 ELSE IF m \in {4, 6, 9, 11} THEN 30 ELSE 31
DateExists(m, d) == m >= 1 /\ m <= 12 /\ d >= 1 /\ d <= DaysOf(m)
IsDateMessage(msg) == Len(msg) > 0 /\ msg[1] \in {"Month", "Day"}

Cleaned == CleanStr(timeStr)
Extracted == ExtractDates(Cleaned, 1)
AllExtractedExist == \A i \in 1..Len(Extracted) : DateExists(Extracted[i].m, Extracted[i].d)
ContainsRangeSeparator == \E i \in 1..Len(Cleaned) : Cleaned[i] = "-" \/ Cleaned[i] = "zhi"
\* four digits followed by 年
ContainsYearToken ==
    \E i \in 1..(Len(Cleaned) - 4) :
        /\ \A k \in i..(i + 3) : Cleaned[k] \in Digits
        /\ Cleaned[i + 4] = "nian"

(***************************************************************************)
(* C2 (as claimed): stage 1 passes only if some rule's pattern matches the *)
(* entire cleaned string; otherwise the result is invalid with the "no     *)
(* known format" message, for every rule set.                              *)
(***************************************************************************)
C2_WholeStringMatch ==
    (/\ Done
     /\ timeStr # <<>>
     /\ \A i \in 1..Len(formats) : ~MatchesWhole(formats[i].pattern, Cleaned))
    => result = Invalid(MsgNoFormat)

(***************************************************************************)
(* C3 (as claimed): an input that is empty after trimming gets the "empty" *)
(* message, whatever the rule set.                                         *)
(***************************************************************************)
C3_EmptyAfterTrim ==
    (Done /\ trim(timeStr) = <<>>) => result = Invalid(MsgEmpty)

(***************************************************************************)
(* C5: a rule whose pattern does not compile never aborts validation: a    *)
(* result is returned, the rule counts as non-matching and the other rules *)
(* are still evaluated, wherever the malformed rule sits.                  *)
(***************************************************************************)
HasMalformedRule == \E i \in 1..Len(formats) : RegExpThrows(formats[i].pattern)
SomeWellFormedRuleMatches ==
    \E i \in 1..Len(formats) :
        ~RegExpThrows(formats[i].pattern) /\ RegExpTest(formats[i].pattern, Cleaned)

C5_MalformedRuleSkipped ==
    (Done /\ HasMalformedRule /\ timeStr # <<>>) =>
        /\ result.isValid \in BOOLEAN
        /\ result # NoResult
        /\ (result.message = MsgNoFormat) <=> ~SomeWellFormedRuleMatches

C5_Witness ==
    /\ Done
    /\ Len(formats) > 1
    /\ RegExpThrows(formats[1].pattern)
    /\ timeStr = MonthDay(5, 1) \o <<"zhi">> \o MonthDay(5, 5)
    /\ result = Valid

(***************************************************************************)
(* C6 (as claimed): for a string that passed stage 1, stage 2 fails        *)
(* exactly when some extracted (month, day) pair is out of range.          *)
(***************************************************************************)
C6_Stage2FailsOnlyOnRange ==
    PassedStage1 => (~result.isValid <=> ~AllExtractedExist)

(***************************************************************************)
(* C6 (amended): for a string that passed stage 1, stage 2 fails with a    *)
(* month/day message exactly when some extracted pair violates             *)
(* 1 <= month <= 12 or 1 <= day <= daysInMonth[month], February capped at  *)
(* 29; every existing M月D日 passes, 2月30日 fails naming February's 29    *)
(* days, and the check applies when a 4-digit year is present.             *)
(***************************************************************************)
C6_DateRangeCheck ==
    PassedStage1 =>
        /\ IsDateMessage(result.message) <=> ~AllExtractedExist
        /\ \A m \in 0..MaxMonth :
              (\E y \in {<<>>, Year(2024)} : IsPrefix(y \o String(m) \o <<"yue">>, timeStr))
              => \A d \in 0..MaxDay :
                    timeStr \in {MonthDay(m, d), Year(2024) \o MonthDay(m, d)}
                        => (result.isValid <=> DateExists(m, d))
        /\ timeStr = MonthDay(2, 30) => result = Invalid(MsgDay(2, 29, 30))

C6_Witness ==
    /\ Done
    /\ timeStr = Year(2024) \o MonthDay(2, 30)
    /\ result = Invalid(MsgDay(2, 29, 30))

(***************************************************************************)
(* C7 (as claimed): every string accepted by the built-in 全年 rule or by  *)
(* the built-in weekly rule yields no (month, day) pair and is valid       *)
(* against the initial rule library.                                       *)
(***************************************************************************)
C7_NoDateStringsAccepted ==
    (/\ Done
     /\ formats = INITIAL_TIME_FORMATS
     /\ \/ MatchesWhole(INITIAL_TIME_FORMATS[8].pattern, Cleaned)
        \/ MatchesWhole(INITIAL_TIME_FORMATS[5].pattern, Cleaned))
    => (Extracted = <<>> /\ result = Valid)

C9_YearRollover ==
    (/\ PassedStage1
     /\ Len(Extracted) = 2
     /\ Extracted[1].m = 12 /\ Extracted[2].m = 1
     /\ AllExtractedExist)
    => result = Valid

C9_Witness ==
    /\ Done
    /\ timeStr = MonthDay(12, 31) \o <<"-">> \o MonthDay(1, 1)
    /\ result = Valid

(***************************************************************************)
(* C10: a string with a 4-digit year token never fails with "end before    *)
(* start": the ordering check is skipped.                                  *)
(***************************************************************************)
C10_YearSkipsOrdering ==
    /\ (Done /\ ContainsYearToken) => result.message # MsgEndBeforeStart
    /\ (/\ PassedStage1
        /\ timeStr \in { Year(2024) \o MonthDay(11, 1) \o <<"-">> \o Year(2025) \o MonthDay(2, 1),
                         Year(2024) \o MonthDay(12, 31) \o <<"-">> \o Year(2025) \o MonthDay(1, 5) })
       => result = Valid

C10_Witness ==
    /\ Done
    /\ timeStr = Year(2024) \o MonthDay(11, 1) \o <<"-">> \o Year(2025) \o MonthDay(2, 1)
    /\ result = Valid

(***************************************************************************)
(* SpecAnnotate: validateTimeFormat called on short strings that may hold  *)
(* brackets; the claims compare the call with the calls on the same string *)
(* with one more annotation inserted.                                      *)
(***************************************************************************)
MaxAnnotated == 3   \* the longest string an annotation is inserted into

AnnotatedChars == {"1", "yue", " ", "(", ")", "fl", "fr"}
AnnotatedStrings == UNION { [1..n -> AnnotatedChars] : n \in 0..MaxAnnotated }

InitAnnotate ==
    /\ timeStr \in AnnotatedStrings \cup OtherStrings
    /\ formats \in {INITIAL_TIME_FORMATS, INITIAL_TIME_FORMATS \o <<UnanchoredRule>>}
    /\ result = NoResult
    /\ vpc = "call"
    /\ AppUnused

SpecAnnotate == InitAnnotate /\ [][NextValidate]_vars

\* s with the annotation a put in after its first p characters
Insert(s, p, a) == SubSeq(s, 1, p) \o a \o SubSeq(s, p + 1, Len(s))

AnnotationTexts == {<<>>, <<"x">>, <<"1", " ">>}
Brackets == {<<"(", ")">>, <<"fl", "fr">>}
Annotation(b, text) == <<b[1]>> \o text \o <<b[2]>>

\* an opening bracket b[1] among the first p characters of s with no closing
\* bracket b[2] between it and position p
OpenBefore(s, p, b) ==
    \E q \in 1..p : s[q] = b[1] /\ \A r \in (q + 1)..p : s[r] # b[2]

(***************************************************************************)
(* C4 (as claimed): for every time string and rule set, inserting any      *)
(* ASCII or fullwidth parenthetical annotation gives the same result.      *)
(***************************************************************************)
C4_AnnotationIgnored ==
    Done => \A p \in 0..Len(timeStr), b \in Brackets, text \in AnnotationTexts :
                validateTimeFormat(Insert(timeStr, p, Annotation(b, text)), formats) = result

(***************************************************************************)
(* What holds of the code instead: for every non-empty time string and     *)
(* rule set, inserting an ASCII or fullwidth annotation whose text holds   *)
(* no bracket, at a place not preceded by a still unclosed opening bracket *)
(* of its kind, gives the same result (isValid and message).               *)
(***************************************************************************)
AnnotationIgnoredWhenClosed ==
    (Done /\ timeStr # <<>>) =>
        \A p \in 0..Len(timeStr), b \in Brackets, text \in AnnotationTexts :
            ~OpenBefore(timeStr, p, b) =>
                validateTimeFormat(Insert(timeStr, p, Annotation(b, text)), formats) = result

AnnotationIgnoredReached ==
    /\ Done
    /\ timeStr = <<"1", "yue", "1", "ri", "(", "x", ")">>
    /\ result = Valid
    /\ validateTimeFormat(Insert(timeStr, 2, <<"fl", "x", "fr">>), formats) = Valid

(***************************************************************************)
(* The App (src/unnamed/part_000).  The further CJK characters of its      *)
(* strings are written in pinyin too, a numeral telling apart characters   *)
(* that sound alike: 宫 "gong1", 工 "gong2", 公 "gong3", 功 "gong4".       *)
(***************************************************************************)

\* the names the mount effect puts into the location library
initialData ==
    << <<"wen", "hua", "gong1", "si", "lou", "wen", "hua", "jiao", "liu", "zhong", "xin">>,
       <<"xian", "shang", "zheng", "ji">>,
       <<"wen", "hua", "gong1", "qiu", "guan">>,
       <<"wen", "hua", "gong1", "wei", "qi2", "tian", "di">>,
       <<"wen", "hua", "gong1", "zhi2", "gong2", "ti", "shi3", "neng", "jian2", "shen", "guan">>,
       <<"nan", "ning", "shi1", "gong2", "ren", "wen", "hua", "gong1", "wei2", "xin2",
         "gong3", "zhong2", "hao">>,
       <<"wen", "hua", "gong1", "san", "lou", "duo", "gong4", "neng", "ting">>,
       <<"jiao", "tong", "yin", "hang", "jin", "rong", "zhong", "xin">>,
       <<"wen", "hua", "gong1", "yi", "lou", "da", "tang", "bao", "ming", "dian">>,
       <<"nan", "ning", "shi1", "hong", "se", "gong2", "yun", "jiao2", "yu", "ti", "yan", "guan">>,
       <<"nan", "ning", "shi1", "zhi2", "gong2", "A", "I", "ke", "ji2", "jiao2", "yu", "ti",
         "yan", "guan">>,
       <<"ge", "ji3", "ceng", "gong2", "hui">>,
       <<"nan", "ning", "shi1", "ge", "zhong", "xiao", "xue">>,
       <<"wen", "hua", "gong1", "zhi2", "gong2", "guang", "chang">> >>

\* Math.random().toString(36).substr(2, 9): an id no live item of the
\* collection carries
FreshId(items) ==
    CHOOSE n \in 1..(Len(items) + 1) : \A i \in 1..Len(items) : items[i].id # n

\* for comparison: a check that takes a name containing the text, or
\* contained in it, for a match
LocationKnownFuzzy(locs, location) ==
    \E i \in 1..Len(locs) :
        includes(locs[i].name, trim(location)) \/ includes(trim(location), locs[i].name)

\* locations.some(loc => loc.name === location.trim())
LocationKnown(locs, location) ==
    \E i \in 1..Len(locs) : locs[i].name = trim(location)

\* the event with the results of its validation
Validated(event, id, timeValidation, isLocationValid) ==
    [ id                |-> id,
      serialNo          |-> event.serialNo,
      name              |-> event.name,
      time              |-> event.time,
      location          |-> event.location,
      isTimeValid       |-> timeValidation.isValid,
      validationMessage |-> timeValidation.message,
      isLocationValid   |-> isLocationValid,
      ignoredErrors     |-> <<>> ]

\* validateEvent, the id given by the caller
validateEvent(event, id, locs, tfs) ==
    Validated(event, id, validateTimeFormat(event.time, tfs),
              LocationKnown(locs, event.location))

\* { ...evt, isLocationValid, isTimeValid, validationMessage }
Revalidated(evt, timeValidation, isLocationValid) ==
    [ evt EXCEPT
        !.isLocationValid   = isLocationValid,
        !.isTimeValid       = timeValidation.isValid,
        !.validationMessage = timeValidation.message ]

\* the effect on [locations, timeFormats]: every event validated again
Revalidate(evs, locs, tfs) ==
    [ i \in 1..Len(evs) |->
        Revalidated(evs[i], validateTimeFormat(evs[i].time, tfs),
                    LocationKnown(locs, evs[i].location)) ]

(***************************************************************************)
(* handleExcelImport.  A sheet is a sequence of rows, a row a sequence of  *)
(* cells, a cell a string, a number, a hole (undefined) or, as XLSX.read    *)
(* hands it over, a Date with its month m and day d in local time.         *)
(***************************************************************************)
StrCell(s) == [k |-> "str", s |-> s, n |-> 0, m |-> 0, d |-> 0]
NumCell(n) == [k |-> "num", s |-> <<>>, n |-> n, m |-> 0, d |-> 0]
NoCell == [k |-> "none", s |-> <<>>, n |-> 0, m |-> 0, d |-> 0]
DateCell(m, d) == [k |-> "date", s |-> <<>>, n |-> 0, m |-> m, d |-> d]

Undefined == <<"u", "n", "d", "e", "f", "i", "n", "e", "d">>

\* String(cell)
CellString(c) ==
    CASE c.k = "str" -> c.s
      [] c.k = "num" -> String(c.n)
      [] c.k = "none" -> Undefined

\* cell || '' takes the cell
Truthy(c) ==
    CASE c.k = "str" -> c.s # <<>>
      [] c.k = "num" -> c.n # 0
      [] c.k = "none" -> FALSE

\* s.replace(/\s+/g, '')
RemoveSpace(s) == SelectSeq(s, LAMBDA ch : ch \notin WhiteSpace)

\* row.map(c => String(c).trim().replace(/\s+/g, ''))
RowStr(row) == [i \in 1..Len(row) |-> RemoveSpace(trim(CellString(row[i])))]

\* 序号; 名称 活动 内容 项目; 时间 日期; 地点 地址 场馆
KwSerial == <<"xu", "hao">>
KwName == {<<"ming", "cheng">>, <<"huo", "dong">>, <<"nei", "rong2">>}
KwProject == <<"xiang", "mu">>
KwTime == {<<"shi", "jian">>, <<"ri", "qi">>}
KwPlace == <<"di", "dian">>
KwLocation == {KwPlace, <<"di", "zhi3">>, <<"chang", "guan">>}

IncludesAny(s, kws) == \E kw \in kws : includes(s, kw)

\* the score of a row as a header row
HeaderScore(row) ==
    LET rowStr == RowStr(row)
        Some(Test(_)) == \E i \in 1..Len(rowStr) : Test(rowStr[i])
        Serial(s) == includes(s, KwSerial)
        Name(s) == /\ IncludesAny(s, KwName)
                   /\ ~includes(s, <<"shi", "jian">>)
                   /\ ~includes(s, KwPlace)
        Time(s) == IncludesAny(s, KwTime)
        Location(s) == IncludesAny(s, KwLocation)
    IN  (IF Some(Serial) THEN 10 ELSE 0) + (IF Some(Name) THEN 10 ELSE 0)
        + (IF Some(Time) THEN 10 ELSE 0) + (IF Some(Location) THEN 10 ELSE 0)

Min(a, b) == IF a < b THEN a ELSE b

\* the rows the search for the header row looks at
ScanLimit == 20

\* for comparison: a search that takes the later of two rows of equal score
RECURSIVE HeaderScanLastWins(_, _, _, _)
HeaderScanLastWins(rawData, i, maxScore, best) ==
    IF i >= Min(Len(rawData), ScanLimit) THEN best
    ELSE IF HeaderScore(rawData[i + 1]) >= maxScore /\ HeaderScore(rawData[i + 1]) > 0
         THEN HeaderScanLastWins(rawData, i + 1, HeaderScore(rawData[i + 1]), i)
         ELSE HeaderScanLastWins(rawData, i + 1, maxScore, best)

\* the loop over the first rows from row i (from 0) on, maxScore and
\* bestHeaderRowIndex as they stand
RECURSIVE HeaderScan(_, _, _, _)
HeaderScan(rawData, i, maxScore, best) ==
    IF i >= Min(Len(rawData), ScanLimit) THEN best
    ELSE IF HeaderScore(rawData[i + 1]) > maxScore
         THEN HeaderScan(rawData, i + 1, HeaderScore(rawData[i + 1]), i)
         ELSE HeaderScan(rawData, i + 1, maxScore, best)

\* bestHeaderRowIndex after the loop, rows counted from 0, -1 for no header row
bestHeaderRowIndex(rawData) == HeaderScan(rawData, 0, 0, -1)

\* the column the forEach leaves in colMap, hits the cells that pass its
\* test: the last of them, counted from 0, or -1
LastColumn(hits) ==
    IF hits = {} THEN -1 ELSE (CHOOSE i \in hits : \A j \in hits : j <= i) - 1

\* Number(cell) is not NaN.  Of the characters of the model only the digits,
\* the signs and the point make a numeric string.
IsNumeric(c) ==
    CASE c.k = "num" -> TRUE
      [] c.k = "none" -> FALSE
      [] c.k = "str" ->
            LET s == trim(c.s)
                u == IF s # <<>> /\ Head(s) \in {"+", "-"} THEN Tail(s) ELSE s
                points == {i \in 1..Len(u) : u[i] = "."}
            IN  \/ s = <<>>
                \/ /\ \A i \in 1..Len(u) : u[i] \in Digits \cup {"."}
                   /\ Cardinality(points) <= 1
                   /\ \E i \in 1..Len(u) : u[i] \in Digits

\* rawData[0][0]
FirstCell(rawData) == IF Len(rawData[1]) > 0 THEN rawData[1][1] ELSE NoCell

ColMap(serial, name, time, location) ==
    [serial |-> serial, name |-> name, time |-> time, location |-> location]

\* the tests of the forEach over the header cells
IsSerialHeader(s) == includes(s, KwSerial)
IsNameHeader(s) ==
    IncludesAny(s, KwName \cup {KwProject}) /\ ~IncludesAny(s, KwTime \cup KwLocation)
IsTimeHeader(s) == IncludesAny(s, KwTime)
IsLocationHeader(s) == IncludesAny(s, KwLocation)

\* colMap after the forEach found these columns: the columns it lacks, guessed
GuessColumns(serial, name, time, location) ==
    IF name # -1
    THEN ColMap(serial, name,
                IF time = -1 THEN name + 1 ELSE time,
                IF location = -1 THEN name + 2 ELSE location)
    ELSE IF serial # -1
         THEN ColMap(serial, serial + 1, serial + 2, serial + 3)
         ELSE ColMap(serial, name, time, location)

\* colMap from the cells of the header row
HeaderColMap(rowStr) ==
    GuessColumns(LastColumn({i \in 1..Len(rowStr) : IsSerialHeader(rowStr[i])}),
                 LastColumn({i \in 1..Len(rowStr) : IsNameHeader(rowStr[i])}),
                 LastColumn({i \in 1..Len(rowStr) : IsTimeHeader(rowStr[i])}),
                 LastColumn({i \in 1..Len(rowStr) : IsLocationHeader(rowStr[i])}))

\* colMap, best the index of the header row or -1
ColMapAt(rawData, best) ==
    IF best # -1
    THEN HeaderColMap(RowStr(rawData[best + 1]))
    ELSE IF Len(rawData) > 1 /\ IsNumeric(FirstCell(rawData))
         THEN ColMap(0, 1, 2, 3)
         ELSE ColMap(-1, 0, 1, 2)

colMapOf(rawData) == ColMapAt(rawData, bestHeaderRowIndex(rawData))

\* getUTCMonth() + 1 and getUTCDate() of new Date((val - 25569) * 86400 * 1000),
\* val a whole number of days: the civil date that many days after 1970-01-01
UTCDateOf(val) ==
    LET z == (val - 25569) + 719468
        era == z \div 146097
        doe == z - era * 146097
        yoe == (doe - doe \div 1460 + doe \div 36524 - doe \div 146096) \div 365
        doy == doe - (365 * yoe + yoe \div 4 - yoe \div 100)
        mp == (5 * doy + 2) \div 153
    IN  [ m |-> IF mp < 10 THEN mp + 3 ELSE mp - 9,
          d |-> doy - (153 * mp + 2) \div 5 + 1 ]

\* getVal(idx)
getVal(row, idx) ==
    IF idx >= 0 /\ idx < Len(row) /\ Truthy(row[idx + 1])
    THEN trim(CellString(row[idx + 1]))
    ELSE <<>>

\* getTime(idx)
getTime(row, idx) ==
    IF idx < 0 \/ idx >= Len(row) THEN <<>>
    ELSE LET val == row[idx + 1] IN
         IF val.k = "num" /\ val.n > 30000
         THEN trim(String(UTCDateOf(val.n).m) \o <<"yue">>
                   \o String(UTCDateOf(val.n).d) \o <<"ri">>)
         ELSE IF Truthy(val) THEN trim(CellString(val)) ELSE <<>>

\* the loop over the data rows from row i (from 0), importedEvents so far
RECURSIVE ImportRows(_, _, _, _, _, _)
ImportRows(rawData, i, colMap, importedEvents, locs, tfs) ==
    IF i >= Len(rawData) THEN importedEvents
    ELSE LET row == rawData[i + 1]
             serialNo == getVal(row, colMap.serial)
             name == getVal(row, colMap.name)
             event == [ serialNo |-> IF serialNo # <<>> THEN serialNo
                                     ELSE String(Len(importedEvents) + 1),
                        name |-> name,
                        time |-> getTime(row, colMap.time),
                        location |-> getVal(row, colMap.location) ]
         IN  ImportRows(rawData, i + 1, colMap,
                        IF name # <<>>
                        THEN Append(importedEvents,
                                    validateEvent(event, FreshId(importedEvents), locs, tfs))
                        ELSE importedEvents,
                        locs, tfs)

\* startRow
StartRow(best) == IF best = -1 THEN 0 ELSE best + 1

\* importedEvents of handleExcelImport, in a render with the libraries locs and tfs
Imported(rawData, locs, tfs) ==
    ImportRows(rawData, StartRow(bestHeaderRowIndex(rawData)), colMapOf(rawData),
               <<>>, locs, tfs)

(***************************************************************************)
(* generateRegexFromTime: the cleaned sample, its digit runs turned into   *)
(* \d{4} (a run of four) or \d{1,2} (any other run), every other character *)
(* a literal, between ^ and $                                              *)
(***************************************************************************)
RECURSIVE DigitRunEnd(_, _)
DigitRunEnd(s, i) == IF i <= Len(s) /\ s[i] \in Digits THEN DigitRunEnd(s, i + 1) ELSE i

RECURSIVE SampleTokens(_, _)
SampleTokens(s, i) ==
    IF i > Len(s) THEN <<>>
    ELSE IF s[i] \in Digits
         THEN <<IF DigitRunEnd(s, i) - i = 4 THEN D4 ELSE D12>>
              \o SampleTokens(s, DigitRunEnd(s, i))
         ELSE <<Lit(s[i])>> \o SampleTokens(s, i + 1)

generateRegexFromTime(input) == <<Bol>> \o SampleTokens(CleanStr(input), 1) \o <<Eol>>

(***************************************************************************)
(* What the operator types, picks and uploads                              *)
(***************************************************************************)
MaxCustomFormats == 1       \* rules added to the built-in ones
MaxReads == 1               \* FileReader reads in flight
MaxClicks == 3              \* inputs of the operator in one session

OnlineCollection == initialData[2]          \* 线上征集, in the library from the start
BallHall == <<"qiu", "guan">>               \* 球馆, not in it

EditedTimes == {MonthDay(1, 1), <<"5", ".", "1">>}
\* locations typed into a row; the empty one is the input cleared
EditedLocations == {OnlineCollection, BallHall, <<>>}
EditedSerialNos == {<<"1">>}
EditedNames == {<<"B">>}
TypedLocations == {BallHall, <<" ", "qiu", "guan", " ">>, <<" ">>}

\* patterns typed on the time format page; none begins or ends with white
\* space, so that pattern.trim() leaves them as they are
TypedPatterns == {UnanchoredRule.pattern, MalformedRule.pattern}

HeaderRow ==
    << StrCell(KwSerial), StrCell(<<"huo", "dong", "ming", "cheng">>),
       StrCell(<<"shi", "jian">>), StrCell(KwPlace) >>

Sheets ==
    { \* a header row and two events, the second with a wrong serial number
      << HeaderRow,
         <<StrCell(<<"1">>), StrCell(<<"A">>), StrCell(MonthDay(1, 1)), StrCell(OnlineCollection)>>,
         <<StrCell(<<"3">>), StrCell(<<"B">>), StrCell(<<"5", ".", "1">>), StrCell(BallHall)>> >>,
      \* no header row, numbers in the first column, a date as a serial number
      << <<NumCell(1), StrCell(<<"A">>), NumCell(45000), StrCell(BallHall)>>,
         <<NumCell(2), StrCell(<<"B">>), StrCell(MonthDay(2, 30)), StrCell(OnlineCollection)>> >>,
      \* one row of name, time and location, the time a date cell
      << <<StrCell(<<"A">>), DateCell(5, 1), StrCell(OnlineCollection)>> >>,
      \* a header row and nothing under it
      << HeaderRow >>,
      \* an empty sheet
      << >> }

\* a file: a workbook XLSX.read can parse, with its first sheet, or one it cannot
Files == {[parses |-> TRUE, data |-> sh] : sh \in Sheets} \cup {[parses |-> FALSE, data |-> <<>>]}

(***************************************************************************)
(* The App: its state after the mount effect, and its handlers, each with  *)
(* the effects it triggers                                                 *)
(***************************************************************************)
ValidatorUnused ==
    /\ timeStr = <<>>
    /\ formats = <<>>
    /\ result = NoResult
    /\ vpc = "idle"

Init ==
    /\ ValidatorUnused
    /\ events = <<>>
    /\ locations = [i \in 1..Len(initialData) |-> [id |-> i, name |-> initialData[i]]]
    /\ timeFormats = INITIAL_TIME_FORMATS
    /\ reads = {}
    /\ clicks = 0
    /\ PosterUnused
    /\ CallUnused

\* what no handler of the App writes
validatorVars == <<timeStr, formats, result, vpc, call, ret, posterVars>>

\* one more input of the operator
Click ==
    /\ clicks < MaxClicks
    /\ clicks' = clicks + 1

\* setTimeFormats and the re-validation it triggers
SetTimeFormats(tfs) ==
    /\ timeFormats' = tfs
    /\ events' = Revalidate(events, locations, tfs)

\* setLocations and the re-validation it triggers
SetLocations(locs) ==
    /\ locations' = locs
    /\ events' = Revalidate(events, locs, timeFormats)

\* addTimeFormat
addTimeFormat(name, pattern) ==
    SetTimeFormats(Append(timeFormats, Rule(FreshId(timeFormats), name, pattern, FALSE)))

\* TimeFormatLibrary.handleSubmit, name and pattern not blank
SubmitTimeFormat ==
    \E pattern \in TypedPatterns :
        /\ Click
        /\ Len(timeFormats) < Len(INITIAL_TIME_FORMATS) + MaxCustomFormats
        /\ IF RegExpThrows(pattern)
           THEN UNCHANGED <<events, timeFormats>>
           ELSE addTimeFormat("custom", pattern)
        /\ UNCHANGED <<locations, reads, validatorVars>>

\* removeTimeFormat, from the button of a rule that is not a system rule
RemoveTimeFormat ==
    \E i \in 1..Len(timeFormats) :
        /\ Click
        /\ ~timeFormats[i].isSystem
        /\ SetTimeFormats(SelectSeq(timeFormats, LAMBDA t : t.id # timeFormats[i].id))
        /\ UNCHANGED <<locations, reads, validatorVars>>

\* for comparison: addLocation without its look at the library
addLocationUnchecked(closure, locs, name) ==
    Append(locs, [id |-> FreshId(locs), name |-> name])

\* addLocation of a render whose locations are closure
addLocation(closure, locs, name) ==
    IF \E i \in 1..Len(closure) : closure[i].name = name
    THEN locs
    ELSE Append(locs, [id |-> FreshId(locs), name |-> name])

\* AddressLibrary.handleSubmit
SubmitLocation ==
    \E typed \in TypedLocations :
        /\ Click
        /\ IF trim(typed) # <<>> /\ addLocation(locations, locations, trim(typed)) # locations
           THEN SetLocations(addLocation(locations, locations, trim(typed)))
           ELSE UNCHANGED <<events, locations>>
        /\ UNCHANGED <<timeFormats, reads, validatorVars>>

\* removeLocation
RemoveLocation ==
    \E i \in 1..Len(locations) :
        /\ Click
        /\ locations[i].name \in EditedLocations \cup {trim(l) : l \in TypedLocations}
        /\ SetLocations(SelectSeq(locations, LAMBDA l : l.id # locations[i].id))
        /\ UNCHANGED <<timeFormats, reads, validatorVars>>

\* updated of handleUpdateEvent for the field time
UpdatedTime(evt, value, timeValidation) ==
    [ evt EXCEPT
        !.time = value,
        !.isTimeValid = timeValidation.isValid,
        !.validationMessage = timeValidation.message ]

\* handleUpdateEvent
handleUpdateEvent(evs, id, field, value) ==
    [ i \in 1..Len(evs) |->
        IF evs[i].id # id THEN evs[i]
        ELSE CASE field = "serialNo" -> [evs[i] EXCEPT !.serialNo = value]
               [] field = "name" -> [evs[i] EXCEPT !.name = value]
               [] field = "time" ->
                    UpdatedTime(evs[i], value, validateTimeFormat(value, timeFormats))
               [] field = "location" ->
                    [evs[i] EXCEPT
                        !.location = value,
                        !.isLocationValid = LocationKnown(locations, value)] ]

eventVars == <<locations, timeFormats, reads, validatorVars>>

\* the inputs of a row of EventList, onChange
EditEvent ==
    \E i \in 1..Len(events), field \in {"serialNo", "name", "time", "location"} :
        \E value \in CASE field = "serialNo" -> EditedSerialNos
                       [] field = "name" -> EditedNames
                       [] field = "time" -> EditedTimes
                       [] field = "location" -> EditedLocations :
            /\ Click
            /\ events' = handleUpdateEvent(events, events[i].id, field, value)
            /\ UNCHANGED eventVars

\* onDelete: prev.filter(e => e.id !== id)
onDelete(evs, id) == SelectSeq(evs, LAMBDA e : e.id # id)

\* the delete button of a row of EventList
DeleteEvent ==
    \E i \in 1..Len(events) :
        /\ Click
        /\ events' = onDelete(events, events[i].id)
        /\ UNCHANGED eventVars

\* onClearAll, confirmed or not
ClearAll ==
    /\ Click
    /\ events # <<>>
    /\ \E confirmed \in BOOLEAN : events' = IF confirmed THEN <<>> ELSE events
    /\ UNCHANGED eventVars

\* e.serialNo !== String(events.indexOf(e) + 1)
SerialWrong(evs, i) == evs[i].serialNo # String(i)

Ignored(e, type) == \E k \in 1..Len(e.ignoredErrors) : e.ignoredErrors[k] = type

\* the positions of the events the sidebar lists as pending and as ignored
pendingSerialIssues == {i \in 1..Len(events) : SerialWrong(events, i) /\ ~Ignored(events[i], "serial")}
pendingTimeIssues == {i \in 1..Len(events) : ~events[i].isTimeValid /\ ~Ignored(events[i], "time")}
pendingLocationIssues ==
    {i \in 1..Len(events) : ~events[i].isLocationValid /\ ~Ignored(events[i], "location")}
ignoredSerialIssues == {i \in 1..Len(events) : SerialWrong(events, i) /\ Ignored(events[i], "serial")}
ignoredTimeIssues == {i \in 1..Len(events) : ~events[i].isTimeValid /\ Ignored(events[i], "time")}
ignoredLocationIssues ==
    {i \in 1..Len(events) : ~events[i].isLocationValid /\ Ignored(events[i], "location")}

\* for comparison: serial numbers counted from 0, as the index is
fixSerialNumbersFromZero(evs) ==
    [i \in 1..Len(evs) |-> [evs[i] EXCEPT !.serialNo = String(i - 1)]]

\* fixSerialNumbers: prev.map((evt, index) => ({ ...evt, serialNo: String(index + 1) }))
fixSerialNumbers(evs) ==
    [i \in 1..Len(evs) |-> [evs[i] EXCEPT !.serialNo = String(i)]]

\* the button of the card of the pending serial issues
FixSerialNumbers ==
    /\ Click
    /\ pendingSerialIssues # {}
    /\ events' = fixSerialNumbers(events)
    /\ UNCHANGED eventVars

\* for comparison: an ignore that hides the error by marking the field valid
handleIgnoreErrorAsValid(evs, S, type) ==
    [ i \in 1..Len(evs) |->
        IF i \in S /\ ~Ignored(evs[i], type)
        THEN [evs[i] EXCEPT !.ignoredErrors = Append(@, type),
                            !.isTimeValid = IF type = "time" THEN TRUE ELSE @,
                            !.isLocationValid = IF type = "location" THEN TRUE ELSE @]
        ELSE evs[i] ]

\* handleIgnoreError for every event at the positions in S
handleIgnoreError(evs, S, type) ==
    [ i \in 1..Len(evs) |->
        IF i \in S /\ ~Ignored(evs[i], type)
        THEN [evs[i] EXCEPT !.ignoredErrors = Append(@, type)]
        ELSE evs[i] ]

\* handleRestoreError for every event at the positions in S
handleRestoreError(evs, S, type) ==
    [ i \in 1..Len(evs) |->
        IF i \in S
        THEN [evs[i] EXCEPT !.ignoredErrors = SelectSeq(@, LAMBDA t : t # type)]
        ELSE evs[i] ]

\* the sidebar's buttons to ignore: all serial issues, the events of one
\* location card, one time issue
IgnoreError ==
    /\ Click
    /\ \/ /\ pendingSerialIssues # {}
          /\ events' = handleIgnoreError(events, pendingSerialIssues, "serial")
       \/ \E i \in pendingLocationIssues :
            /\ events[i].location # <<>>
            /\ events' = handleIgnoreError(events,
                            {j \in pendingLocationIssues : events[j].location = events[i].location},
                            "location")
       \/ \E i \in pendingTimeIssues :
            events' = handleIgnoreError(events, {i}, "time")
    /\ UNCHANGED eventVars

\* the sidebar's buttons to restore: all serial issues, one location issue,
\* one time issue
RestoreError ==
    /\ Click
    /\ \/ /\ ignoredSerialIssues # {}
          /\ events' = handleRestoreError(events, ignoredSerialIssues, "serial")
       \/ \E i \in ignoredLocationIssues :
            events' = handleRestoreError(events, {i}, "location")
       \/ \E i \in ignoredTimeIssues :
            events' = handleRestoreError(events, {i}, "time")
    /\ UNCHANGED eventVars

\* Array.from(new Set(pendingLocationIssues.map(e => e.location))).filter(l => !!l),
\* from the event at position i on
RECURSIVE UniqueLocationsFrom(_, _)
UniqueLocationsFrom(i, seen) ==
    IF i > Len(events) THEN seen
    ELSE UniqueLocationsFrom(i + 1,
            IF /\ i \in pendingLocationIssues
               /\ events[i].location # <<>>
               /\ \A k \in 1..Len(seen) : seen[k] # events[i].location
            THEN Append(seen, events[i].location)
            ELSE seen)

uniqueInvalidLocations == UniqueLocationsFrom(1, <<>>)

\* names.forEach(name => addLocation(name)), every call in the same render
RECURSIVE AddLocations(_, _, _)
AddLocations(closure, locs, names) ==
    IF names = <<>> THEN locs
    ELSE AddLocations(closure, addLocation(closure, locs, Head(names)), Tail(names))

\* the sidebar's buttons to put one unknown location, or all of them, into
\* the library
AddLocationToLibrary ==
    /\ Click
    /\ \E names \in {uniqueInvalidLocations}
                    \cup {<<uniqueInvalidLocations[k]>> : k \in 1..Len(uniqueInvalidLocations)} :
          /\ names # <<>>
          /\ IF AddLocations(locations, locations, names) # locations
             THEN SetLocations(AddLocations(locations, locations, names))
             ELSE UNCHANGED <<events, locations>>
    /\ UNCHANGED <<timeFormats, reads, validatorVars>>

\* validationMessage.includes("格式"): of the messages only that of stage 1
canAddRule(e) == e.validationMessage = MsgNoFormat \/ e.validationMessage = NoMessage

\* IssueSidebar.handleAddFormatRule from the card of a pending time issue,
\* confirmed or not
AddFormatRule ==
    \E i \in pendingTimeIssues, confirmed \in BOOLEAN :
        /\ Click
        /\ canAddRule(events[i])
        /\ Len(timeFormats) < Len(INITIAL_TIME_FORMATS) + MaxCustomFormats
        /\ IF confirmed
           THEN addTimeFormat("custom", generateRegexFromTime(events[i].time))
           ELSE UNCHANGED <<events, timeFormats>>
        /\ UNCHANGED <<locations, reads, validatorVars>>

\* ImportPanel: the Date cells of the sheet turned into M月D日
processedData(data) ==
    [ r \in 1..Len(data) |->
        [ c \in 1..Len(data[r]) |->
            IF data[r][c].k = "date"
            THEN StrCell(MonthDay(data[r][c].m, data[r][c].d))
            ELSE data[r][c] ] ]

\* ImportPanel.handleFileUpload: reader.onload is set to call the
\* handleExcelImport of this render, which closes over its events,
\* locations and timeFormats
StartRead ==
    \E file \in Files :
        /\ Click
        /\ Cardinality(reads) < MaxReads
        /\ reads' = reads \cup {[ file |-> file,
                                  eventsLength |-> Len(events),
                                  locations |-> locations,
                                  timeFormats |-> timeFormats ]}
        /\ UNCHANGED <<events, locations, timeFormats, validatorVars>>

\* reader.onload: the sheet parsed and handed to the handleExcelImport of the
\* render that started the read; the operator confirms the replacement or not
\* events after setEvents(importedEvents), if it is called
SetImported(importedEvents, evs) ==
    IF Len(importedEvents) > 0 THEN importedEvents ELSE evs

\* events after handleExcelImport(rawData) as the render r defines it, the
\* replacement confirmed or not
handleExcelImport(rawData, r, confirmed, evs) ==
    IF r.eventsLength > 0 /\ ~confirmed THEN evs
    ELSE SetImported(Imported(rawData, r.locations, r.timeFormats), evs)

\* events after reader.onload handed the rows to onImportExcel, if there are any
OnLoad(rawData, r, confirmed, evs) ==
    IF Len(rawData) > 0 THEN handleExcelImport(rawData, r, confirmed, evs) ELSE evs

FinishRead ==
    \E r \in reads, confirmed \in BOOLEAN :
        /\ reads' = reads \ {r}
        /\ events' = IF r.file.parses
                     THEN OnLoad(processedData(r.file.data), r, confirmed, events)
                     ELSE events
        /\ UNCHANGED <<locations, timeFormats, validatorVars, clicks>>

Next ==
    \/ SubmitTimeFormat
    \/ AddFormatRule
    \/ RemoveTimeFormat
    \/ SubmitLocation
    \/ AddLocationToLibrary
    \/ RemoveLocation
    \/ EditEvent
    \/ DeleteEvent
    \/ ClearAll
    \/ FixSerialNumbers
    \/ IgnoreError
    \/ RestoreError
    \/ StartRead
    \/ FinishRead

Spec == Init /\ [][Next]_vars

(***************************************************************************)
(* The claims about the App, under Spec                                    *)
(***************************************************************************)
\* no read is in flight: every operation begun has run to its end
Quiescent == reads = {}

\* the validity fields of the event are those its time, its location and the
\* current libraries give
DerivedFieldsCurrent(e) ==
    /\ e.isTimeValid = validateTimeFormat(e.time, timeFormats).isValid
    /\ e.validationMessage = validateTimeFormat(e.time, timeFormats).message
    /\ e.isLocationValid = (\E k \in 1..Len(locations) : locations[k].name = trim(e.location))

(***************************************************************************)
(* C1: in every quiescent state of the App, after any sequence of import,  *)
(* field edit, delete, fix-serials, ignore/restore, add/remove location    *)
(* and add/remove time format, every event's isTimeValid and               *)
(* validationMessage equal the result of validateTimeFormat on its time    *)
(* and the current rule library, and its isLocationValid is true exactly   *)
(* when some current library entry's name equals its location trimmed.     *)
(***************************************************************************)
C1_ValidityFollowsLibraries ==
    Quiescent => \A i \in 1..Len(events) : DerivedFieldsCurrent(events[i])

(***************************************************************************)
(* SpecLocation: the three places of the App that compute isLocationValid, *)
(* each applied once to the same location and the same library             *)
(***************************************************************************)
MaxLocationLen == 3     \* the longest location text
MaxLibrary == 2         \* the most entries of a library under check

LocationChars == {"A", "B", " "}
LocationTexts == UNION { [1..n -> LocationChars] : n \in 0..MaxLocationLen }

\* names of library entries; the sidebar can put a text with white space
\* around it into the library as it is
LibraryNames == {<<"A">>, <<"B">>, <<"A", "B">>, <<" ", "A">>}

\* libraries of pairwise distinct names
Libraries ==
    { [i \in 1..Len(names) |-> [id |-> i, name |-> names[i]]] :
        names \in { ns \in UNION { [1..n -> LibraryNames] : n \in 0..MaxLibrary } :
                      \A i, j \in 1..Len(ns) : i # j => ns[i] # ns[j] } }

\* an event as a row of the sheet gives it, and as the list holds it
RowEvent(location) ==
    [serialNo |-> <<"1">>, name |-> <<"A">>, time |-> MonthDay(1, 1), location |-> location]
HeldEvent(location) == Validated(RowEvent(location), 1, Valid, FALSE)

InitLocation ==
    /\ ValidatorUnused
    /\ events = <<HeldEvent(<<>>)>>
    /\ locations \in Libraries
    /\ timeFormats = INITIAL_TIME_FORMATS
    /\ reads = {}
    /\ clicks = 0
    /\ PosterUnused
    /\ call \in {[fn |-> "isLocationValid", location |-> l] : l \in LocationTexts}
    /\ ret = NoReturn

\* isLocationValid as the import, the edit of the field and the effect on
\* the libraries compute it
CallLocation ==
    /\ call.fn = "isLocationValid"
    /\ ~ret.done
    /\ ret' = Return(
        [ import |-> validateEvent(RowEvent(call.location), 1,
                                   locations, timeFormats).isLocationValid,
          edit   |-> handleUpdateEvent(events, 1, "location",
                                       call.location)[1].isLocationValid,
          effect |-> Revalidate(<<HeldEvent(call.location)>>,
                                locations, timeFormats)[1].isLocationValid ])
    /\ UNCHANGED <<timeStr, formats, result, vpc, events, locations, timeFormats,
                   reads, clicks, call, posterVars>>

NextLocation == CallLocation

SpecLocation == InitLocation /\ [][NextLocation]_vars

LocationChecked == call.fn = "isLocationValid" /\ ret.done

\* some entry of the library has exactly this name
IsEntryName(name) == \E k \in 1..Len(locations) : locations[k].name = name

\* some entry's name contains the text or is contained in it
NearEntryName(text) ==
    \E k \in 1..Len(locations) :
        includes(locations[k].name, text) \/ includes(text, locations[k].name)

(***************************************************************************)
(* C11: the location check is exact equality after trimming.  On each of   *)
(* the three code paths (import, field edit, bulk re-validation) the       *)
(* location is valid if and only if its trimmed text equals the name of    *)
(* some library entry; a text that only contains a library name, or is     *)
(* only contained in one, is not valid.                                    *)
(***************************************************************************)
C11_ExactLocationMatch ==
    LocationChecked =>
        /\ ret.value.import = IsEntryName(trim(call.location))
        /\ ret.value.edit = IsEntryName(trim(call.location))
        /\ ret.value.effect = IsEntryName(trim(call.location))

\* a text that is near a library name without being equal to one was checked
C11_Witness ==
    /\ LocationChecked
    /\ trim(call.location) # <<>>
    /\ NearEntryName(trim(call.location))
    /\ ~IsEntryName(trim(call.location))
    /\ ret.value = [import |-> FALSE, edit |-> FALSE, effect |-> FALSE]

(***************************************************************************)
(* SpecRecommend: getRecommendedLocation called once on a location text    *)
(* and a library                                                           *)
(***************************************************************************)
\* null, which is no string
Null == <<"null">>

\* library.find(item => ...), hits the positions of the items that pass the
\* test: the position of the first of them, 0 if there is none
Find(hits) == IF hits = {} THEN 0 ELSE CHOOSE i \in hits : \A j \in hits : i <= j

\* library.find(...) taken for its name, null if nothing is found
NameFound(library, i) == IF i = 0 THEN Null ELSE library[i].name

\* for comparison: one pass over the library that takes the first item
\* matching either way
getRecommendedLocationOnePass(input, library) ==
    IF input = <<>> THEN Null
    ELSE NameFound(library,
            Find({i \in 1..Len(library) :
                    \/ includes(library[i].name, trim(input))
                    \/ includes(trim(input), library[i].name)}))

getRecommendedLocation(input, library) ==
    IF input = <<>> THEN Null
    ELSE IF Find({i \in 1..Len(library) : includes(library[i].name, trim(input))}) # 0
         THEN NameFound(library,
                Find({i \in 1..Len(library) : includes(library[i].name, trim(input))}))
         ELSE NameFound(library,
                Find({i \in 1..Len(library) : includes(trim(input), library[i].name)}))

InitRecommend ==
    /\ ValidatorUnused
    /\ events = <<>>
    /\ locations = <<>>
    /\ timeFormats = <<>>
    /\ reads = {}
    /\ clicks = 0
    /\ PosterUnused
    /\ call \in {[fn |-> "getRecommendedLocation", input |-> l, library |-> lib] :
                    l \in LocationTexts, lib \in Libraries}
    /\ ret = NoReturn

CallRecommend ==
    /\ call.fn = "getRecommendedLocation"
    /\ ~ret.done
    /\ ret' = Return(getRecommendedLocation(call.input, call.library))
    /\ UNCHANGED <<timeStr, formats, result, vpc, events, locations, timeFormats,
                   reads, clicks, call, posterVars>>

NextRecommend == CallRecommend

SpecRecommend == InitRecommend /\ [][NextRecommend]_vars

Recommended == call.fn = "getRecommendedLocation" /\ ret.done

\* the entries of the library under check whose name contains the text, and
\* those whose name the text contains
Containing(text) == {i \in 1..Len(call.library) : includes(call.library[i].name, text)}
ContainedIn(text) == {i \in 1..Len(call.library) : includes(text, call.library[i].name)}

\* the earliest of a non-empty set of entries
Earliest(S) == CHOOSE i \in S : \A j \in S : i <= j

\* what the claim has returned for the text the input is trimmed to
Recommendation(text) ==
    IF Containing(text) # {} THEN call.library[Earliest(Containing(text))].name
    ELSE IF ContainedIn(text) # {} THEN call.library[Earliest(ContainedIn(text))].name
    ELSE Null

(***************************************************************************)
(* C12 (as claimed): getRecommendedLocation trims the input and returns    *)
(* the name of the first library entry whose name contains the trimmed     *)
(* input; if there is none, the name of the first entry whose name is      *)
(* contained in the trimmed input; otherwise null.  A containing entry     *)
(* wins over a contained entry that comes earlier in the library.          *)
(***************************************************************************)
C12_RecommendAnyInput ==
    Recommended => ret.value = Recommendation(trim(call.input))

(***************************************************************************)
(* C12 (amended): for the empty string getRecommendedLocation returns      *)
(* null whatever the library holds; for every other input, one of white    *)
(* space only included, it returns what the claim says.                    *)
(***************************************************************************)
C12_RecommendNonEmptyInput ==
    Recommended =>
        /\ call.input = <<>> => ret.value = Null
        /\ call.input # <<>> => ret.value = Recommendation(trim(call.input))

\* a containing entry was returned though a contained entry comes before it
C12_Witness ==
    /\ Recommended
    /\ call.input # <<>>
    /\ Containing(trim(call.input)) # {}
    /\ ContainedIn(trim(call.input)) # {}
    /\ Earliest(ContainedIn(trim(call.input))) < Earliest(Containing(trim(call.input)))
    /\ ret.value = call.library[Earliest(Containing(trim(call.input)))].name

(***************************************************************************)
(* C13: the location library never holds two entries of the same name,     *)
(* after any sequence of addLocation and removeLocation calls, several     *)
(* addLocation calls from one rendered state (the sidebar's add all)       *)
(* included; adding a name the library holds leaves it unchanged.          *)
(* Checked under Spec.                                                     *)
(***************************************************************************)
C13_LocationNamesDistinct ==
    \A i, j \in 1..Len(locations) :
        locations[i].name = locations[j].name => i = j

\* one click on add all put two names into the library: the sheet was
\* picked, a location of its rows removed from the library, and both its
\* locations added
C13_Witness ==
    /\ clicks = 3
    /\ reads = {}
    /\ Len(locations) = Len(initialData) + 1
    /\ {locations[Len(locations) - 1].name, locations[Len(locations)].name}
            = {BallHall, OnlineCollection}

(***************************************************************************)
(* SpecSynthesize: IssueSidebar.handleAddFormatRule on a sample time       *)
(* string, confirmed, and then validateTimeFormat on the sample or on a    *)
(* string to compare it with                                               *)
(***************************************************************************)
DotDate == <<"5", ".", "1">>                        \* 5.1
LongDotDate == <<"1", "2", ".", "2", "5">>          \* 12.25

Samples ==
    (FreeStrings \ {<<>>})
    \cup { DotDate, LongDotDate, MonthDay(5, 1), Year(2024) \o MonthDay(1, 1),
           DotDate \o <<"(", "x", ")", " ">>,
           <<"(", "x", ")">>,
           <<"9", "3", "0", "-", "1", "1", "3", "0">>,
           <<"2", "0", "2", "4", "0", "5", "0", "1">> }

\* the strings validated after the rule of the sample was added: the sample
\* itself and, for 5.1, the strings it is compared with
Probes(sample) ==
    {sample} \cup (IF sample = DotDate THEN {LongDotDate, MonthDay(5, 1)} ELSE {})

InitSynthesize ==
    /\ call \in {[fn |-> "generateRegexFromTime", input |-> s] : s \in Samples}
    /\ ret = NoReturn
    /\ timeStr \in Probes(call.input)
    /\ formats \in {<<>>, INITIAL_TIME_FORMATS}
    /\ result = NoResult
    /\ vpc = "rule"
    /\ events = <<>>
    /\ locations = <<>>
    /\ timeFormats = <<>>
    /\ reads = {}
    /\ clicks = 0
    /\ PosterUnused

\* handleAddFormatRule: the pattern generated and put into the rule library
CallGenerate ==
    /\ call.fn = "generateRegexFromTime"
    /\ vpc = "rule"
    /\ ret' = Return(generateRegexFromTime(call.input))
    /\ formats' = Append(formats, Rule(FreshId(formats), "custom",
                                       generateRegexFromTime(call.input), FALSE))
    /\ vpc' = "call"
    /\ UNCHANGED <<timeStr, result, events, locations, timeFormats, reads, clicks, call, posterVars>>

NextSynthesize == CallGenerate \/ CallValidate

SpecSynthesize == InitSynthesize /\ [][NextSynthesize]_vars

Synthesized == call.fn = "generateRegexFromTime" /\ Done

\* the lengths of the maximal runs of digits of s
DigitRunLengths(s) ==
    { j - i + 1 : <<i, j>> \in
        { ij \in (1..Len(s)) \X (1..Len(s)) :
            /\ ij[1] <= ij[2]
            /\ \A k \in ij[1]..ij[2] : s[k] \in Digits
            /\ (ij[1] > 1 => s[ij[1] - 1] \notin Digits)
            /\ (ij[2] < Len(s) => s[ij[2] + 1] \notin Digits) } }

(***************************************************************************)
(* C14: the synthesized pattern matches its own example.  For every sample *)
(* time string s the pattern generateRegexFromTime(s) matches the cleaned  *)
(* form of s, so that validating s against a rule set containing the       *)
(* pattern passes stage 1; the pattern for 5.1 matches 5.1 and 12.25 and   *)
(* does not match 5月1日.                                                  *)
(***************************************************************************)
C14_PatternMatchesSample ==
    Synthesized =>
        /\ timeStr = call.input =>
                /\ MatchesWhole(ret.value, Cleaned)
                /\ PassedStage1
        /\ (call.input = DotDate /\ timeStr \in {DotDate, LongDotDate}) =>
                RegExpTest(ret.value, Cleaned)
        /\ (call.input = DotDate /\ timeStr = MonthDay(5, 1)) =>
                ~RegExpTest(ret.value, Cleaned)

\* What holds of the code instead: the pattern matches the sample when each
\* run of digits of the sample has one, two or four digits.
PatternMatchesShortRuns ==
    Synthesized =>
        /\ (timeStr = call.input /\ DigitRunLengths(Cleaned) \subseteq {1, 2, 4}) =>
                /\ MatchesWhole(ret.value, Cleaned)
                /\ PassedStage1
        /\ (call.input = DotDate /\ timeStr \in {DotDate, LongDotDate}) =>
                RegExpTest(ret.value, Cleaned)
        /\ (call.input = DotDate /\ timeStr = MonthDay(5, 1)) =>
                ~RegExpTest(ret.value, Cleaned)

PatternMatchesShortRunsReached ==
    /\ Synthesized
    /\ timeStr = call.input
    /\ DigitRunLengths(Cleaned) = {1, 4}
    /\ PassedStage1

(***************************************************************************)
(* SpecImport: handleExcelImport called once, in the first render after    *)
(* the mount effect, on the rows of a sheet                                *)
(***************************************************************************)
MaxRows == 3        \* the most rows of a sheet put together from RowPool

DataRow ==
    <<NumCell(1), StrCell(<<"A">>), StrCell(MonthDay(1, 1)), StrCell(OnlineCollection)>>

RowPool ==
    { HeaderRow,
      \* header cells for time and place only
      <<StrCell(<<"shi", "jian">>), StrCell(KwPlace)>>,
      \* the place before the name, no cell for the time
      <<StrCell(KwPlace), StrCell(<<"ming", "cheng">>)>>,
      \* a header cell for the serial number only
      <<StrCell(KwSerial)>>,
      DataRow,
      \* name, time and location with no serial number before them
      <<StrCell(<<"B">>), StrCell(<<"5", ".", "1">>), StrCell(BallHall)>>,
      \* a hole, a name of white space, a date as a serial number
      <<NoCell, StrCell(<<" ">>), NumCell(45000)>>,
      \* the number 0 where the name is looked for
      <<NumCell(2), NumCell(0), StrCell(MonthDay(2, 30)), StrCell(BallHall)>>,
      \* a hole where the serial number is looked for
      <<NoCell, StrCell(<<" ", "C">>), StrCell(MonthDay(1, 1))>> }

\* n data rows, a header row and a row under it
Padded(n) == [i \in 1..n |-> DataRow] \o <<HeaderRow, DataRow>>

ImportSheets ==
    UNION { [1..n -> RowPool] : n \in 1..MaxRows }
    \cup {Padded(ScanLimit - 1), Padded(ScanLimit)}

InitImport ==
    /\ ValidatorUnused
    /\ events = <<>>
    /\ locations = [i \in 1..Len(initialData) |-> [id |-> i, name |-> initialData[i]]]
    /\ timeFormats = INITIAL_TIME_FORMATS
    /\ reads = {}
    /\ clicks = 0
    /\ PosterUnused
    /\ call \in {[fn |-> "handleExcelImport", rawData |-> sh] : sh \in ImportSheets}
    /\ ret = NoReturn

\* handleExcelImport up to setEvents: the header row, the columns and the
\* events it arrives at
CallImport ==
    /\ call.fn = "handleExcelImport"
    /\ ~ret.done
    /\ ret' = Return(
        [ bestHeaderRowIndex |-> bestHeaderRowIndex(call.rawData),
          colMap             |-> colMapOf(call.rawData),
          importedEvents     |-> Imported(call.rawData, locations, timeFormats) ])
    /\ UNCHANGED <<timeStr, formats, result, vpc, events, locations, timeFormats,
                   reads, clicks, call, posterVars>>

NextImport == CallImport

SpecImport == InitImport /\ [][NextImport]_vars

ImportDone == call.fn = "handleExcelImport" /\ ret.done

\* the rows the claims call scanned, counted from 1, and the score of a row
Scanned == 1..Min(Len(call.rawData), ScanLimit)
ScoreOf(i) == HeaderScore(call.rawData[i])

\* the header row the call found, counted from 1; 0 for none
HeaderFound == ret.value.bestHeaderRowIndex + 1

(***************************************************************************)
(* C15: header detection looks at the first 20 rows only, gives each a     *)
(* score of 0 to 40 in steps of 10, and picks the row of the strictly      *)
(* highest score, the earliest of them on ties; if no scanned row scores   *)
(* above 0 the header index is -1.  A table whose row 0 is 序号, 活动名称, *)
(* 时间, 地点 gets header row 0 and the columns serial 0, name 1, time 2,  *)
(* location 3.                                                             *)
(***************************************************************************)
C15_HeaderDetection ==
    ImportDone =>
        /\ \A i \in Scanned : ScoreOf(i) \in {0, 10, 20, 30, 40}
        /\ IF \A i \in Scanned : ScoreOf(i) = 0
           THEN ret.value.bestHeaderRowIndex = -1
           ELSE /\ HeaderFound \in Scanned
                /\ \A i \in Scanned : ScoreOf(i) <= ScoreOf(HeaderFound)
                /\ \A i \in Scanned : ScoreOf(i) = ScoreOf(HeaderFound) => HeaderFound <= i
        /\ call.rawData[1] = HeaderRow =>
                /\ ret.value.bestHeaderRowIndex = 0
                /\ ret.value.colMap = ColMap(0, 1, 2, 3)

\* two scanned rows share the highest score and the earlier one was picked
C15_Witness ==
    /\ ImportDone
    /\ \E i \in Scanned :
            /\ HeaderFound \in Scanned
            /\ HeaderFound < i
            /\ ScoreOf(i) = ScoreOf(HeaderFound)
            /\ ScoreOf(i) > 0

\* a header row behind the rows scanned was not found
ScanLimitReached ==
    /\ ImportDone
    /\ call.rawData = Padded(ScanLimit)
    /\ ret.value.bestHeaderRowIndex = -1

\* the cells of the header row found, and the columns (from 0) whose cell
\* passes the test of a role
HeaderCells == RowStr(call.rawData[HeaderFound])
SerialCells == {i - 1 : i \in {k \in 1..Len(HeaderCells) : IsSerialHeader(HeaderCells[k])}}
NameCells == {i - 1 : i \in {k \in 1..Len(HeaderCells) : IsNameHeader(HeaderCells[k])}}
TimeCells == {i - 1 : i \in {k \in 1..Len(HeaderCells) : IsTimeHeader(HeaderCells[k])}}
LocationCells == {i - 1 : i \in {k \in 1..Len(HeaderCells) : IsLocationHeader(HeaderCells[k])}}

\* the column of a role is one whose cell passes the test, c if there is none
MatchedOr(column, cells, c) == IF cells # {} THEN column \in cells ELSE column = c

\* the columns the claim has resolved from the header row
RolesFromHeader ==
    /\ MatchedOr(ret.value.colMap.serial, SerialCells, -1)
    /\ NameCells # {} =>
            /\ ret.value.colMap.name \in NameCells
            /\ MatchedOr(ret.value.colMap.time, TimeCells, ret.value.colMap.name + 1)
            /\ MatchedOr(ret.value.colMap.location, LocationCells, ret.value.colMap.name + 2)
    /\ (NameCells = {} /\ SerialCells # {}) =>
            /\ ret.value.colMap.name = ret.value.colMap.serial + 1
            /\ ret.value.colMap.time = ret.value.colMap.serial + 2
            /\ ret.value.colMap.location = ret.value.colMap.serial + 3

(***************************************************************************)
(* C16: with a header row detected, keyword matches fix the serial, name,  *)
(* time and location columns; with a name column found, a missing time     *)
(* column is name+1 and a missing location column name+2; with no name     *)
(* column but a serial column, name, time and location are serial+1, +2    *)
(* and +3.  Whenever a header row was detected the resolved name column    *)
(* is a valid index, not -1.                                               *)
(***************************************************************************)
C16_ColumnRoles ==
    (ImportDone /\ ret.value.bestHeaderRowIndex # -1) =>
        /\ RolesFromHeader
        /\ ret.value.colMap.name # -1

\* What holds of the code instead: the columns are resolved as C16 says, and
\* the name column is -1 exactly when the header row has neither a name nor a
\* serial cell; no row under such a header yields a record.
ColumnRolesFromHeader ==
    (ImportDone /\ ret.value.bestHeaderRowIndex # -1) =>
        /\ RolesFromHeader
        /\ ret.value.colMap.name = -1 <=> (NameCells = {} /\ SerialCells = {})
        /\ ret.value.colMap.name = -1 => ret.value.importedEvents = <<>>

ColumnRolesFromHeaderReached ==
    /\ ImportDone
    /\ ret.value.bestHeaderRowIndex # -1
    /\ NameCells = {}
    /\ SerialCells # {}
    /\ ret.value.importedEvents # <<>>

\* the first cell of the first row parses as a number
FirstCellIsNumber == IsNumeric(FirstCell(call.rawData))

(***************************************************************************)
(* C17: when no header row is identified, for every non-empty input, a     *)
(* table of a single row included: if the first cell of the first row      *)
(* parses as a number the columns are serial 0, name 1, time 2, location   *)
(* 3; otherwise name 0, time 1, location 2 and no serial column.           *)
(***************************************************************************)
C17_PositionalFallback ==
    (ImportDone /\ ret.value.bestHeaderRowIndex = -1) =>
        ret.value.colMap = IF FirstCellIsNumber THEN ColMap(0, 1, 2, 3)
                           ELSE ColMap(-1, 0, 1, 2)

\* What holds of the code instead: the first cell is looked at in a table of
\* two rows or more only; a single row is taken as name, time and location.
PositionalFallbackOfRows ==
    (ImportDone /\ ret.value.bestHeaderRowIndex = -1) =>
        ret.value.colMap = IF Len(call.rawData) > 1 /\ FirstCellIsNumber
                           THEN ColMap(0, 1, 2, 3)
                           ELSE ColMap(-1, 0, 1, 2)

PositionalFallbackOfRowsReached ==
    /\ ImportDone
    /\ ret.value.bestHeaderRowIndex = -1
    /\ ret.value.colMap = ColMap(0, 1, 2, 3)

\* the rows after the header row, all rows if there is none, in source order
RowsUnderHeader == SubSeq(call.rawData, HeaderFound + 1, Len(call.rawData))

\* the text of the cell of a row in a column (from 0), trimmed; empty for a
\* hole and for a column the row does not have
CellText(row, idx) ==
    IF idx >= 0 /\ idx < Len(row) /\ row[idx + 1].k # "none"
    THEN trim(CellString(row[idx + 1]))
    ELSE <<>>

\* the same with the number 0 read as an empty cell
CellTextNoZero(row, idx) ==
    IF idx >= 0 /\ idx < Len(row) /\ row[idx + 1] = NumCell(0) THEN <<>>
    ELSE CellText(row, idx)

\* the rows whose name cell is not empty
NamedRows ==
    SelectSeq(RowsUnderHeader, LAMBDA row : CellText(row, ret.value.colMap.name) # <<>>)
NamedRowsNoZero ==
    SelectSeq(RowsUnderHeader, LAMBDA row : CellTextNoZero(row, ret.value.colMap.name) # <<>>)

(***************************************************************************)
(* C18: row extraction starts at the row after the header (row 0 without   *)
(* a header) and keeps source order; a row yields a record if and only if  *)
(* its resolved name cell is non-empty after trimming; a record whose      *)
(* source serial cell is empty gets as serialNo its 1-based position among *)
(* the records extracted so far, not its row index.                        *)
(***************************************************************************)
C18_RowExtraction ==
    ImportDone =>
        /\ Len(ret.value.importedEvents) = Len(NamedRows)
        /\ \A k \in 1..Len(NamedRows) :
             k <= Len(ret.value.importedEvents) =>
                /\ ret.value.importedEvents[k].name
                        = CellText(NamedRows[k], ret.value.colMap.name)
                /\ CellText(NamedRows[k], ret.value.colMap.serial) = <<>> =>
                        ret.value.importedEvents[k].serialNo = String(k)

\* What holds of the code instead: the same with a cell that holds the
\* number 0 taken for an empty cell, for the name as for the serial number.
RowExtractionNoZero ==
    ImportDone =>
        /\ Len(ret.value.importedEvents) = Len(NamedRowsNoZero)
        /\ \A k \in 1..Len(NamedRowsNoZero) :
                /\ ret.value.importedEvents[k].name
                        = CellTextNoZero(NamedRowsNoZero[k], ret.value.colMap.name)
                /\ CellTextNoZero(NamedRowsNoZero[k], ret.value.colMap.serial) = <<>> =>
                        ret.value.importedEvents[k].serialNo = String(k)

\* a record under a skipped row got its position, not its row index
RowExtractionNoZeroReached ==
    /\ ImportDone
    /\ Len(NamedRowsNoZero) < Len(RowsUnderHeader)
    /\ \E k \in 1..Len(NamedRowsNoZero) :
            /\ CellTextNoZero(NamedRowsNoZero[k], ret.value.colMap.serial) = <<>>
            /\ RowsUnderHeader[k] # NamedRowsNoZero[k]
            /\ ret.value.importedEvents[k].serialNo = String(k)

(***************************************************************************)
(* PosterValidator.performValidation (src/components/PosterValidator.tsx): *)
(* the events of the sheet, excel, compared with the items read from the   *)
(* poster.  An entry of the results refers to its items, which are objects *)
(* with an identity: the model writes the position of the item in its      *)
(* list, and 0 for null.                                                   *)
(***************************************************************************)
\* poster.findIndex((p, idx) => !posterUsed.has(idx) && p.serialNo === exItem.serialNo),
\* positions from 1, 0 for -1
FindBySerial(poster, posterUsed, exItem) ==
    Find({idx \in 1..Len(poster) :
            idx \notin posterUsed /\ poster[idx].serialNo = exItem.serialNo})

\* poster.findIndex((p, idx) => !posterUsed.has(idx) && p.name && exItem.name.includes(p.name))
FindByName(poster, posterUsed, exItem) ==
    Find({idx \in 1..Len(poster) :
            /\ idx \notin posterUsed
            /\ poster[idx].name # <<>>
            /\ includes(exItem.name, poster[idx].name)})

\* for comparison: the match by name tried before the match by serial number
pIndexNameFirst(poster, posterUsed, exItem) ==
    IF FindByName(poster, posterUsed, exItem) # 0
    THEN FindByName(poster, posterUsed, exItem)
    ELSE FindBySerial(poster, posterUsed, exItem)

\* pIndex
pIndex(poster, posterUsed, exItem) ==
    IF FindBySerial(poster, posterUsed, exItem) # 0
    THEN FindBySerial(poster, posterUsed, exItem)
    ELSE FindByName(poster, posterUsed, exItem)

Diffs(name, time, location) == [name |-> name, time |-> time, location |-> location]

\* the entry for an excel item and the poster item found for it
PairedEntry(i, exItem, p, pItem, diffs) ==
    [ serial      |-> exItem.serialNo,
      excelEvent  |-> i,
      posterEvent |-> p,
      status      |-> IF ~diffs.name /\ ~diffs.time /\ ~diffs.location
                      THEN "match" ELSE "mismatch",
      diffs       |-> diffs ]

\* for comparison: time and location compared as they are written
ExcelEntryExact(excel, poster, i, p) ==
    IF p # 0
    THEN PairedEntry(i, excel[i], p, poster[p],
            Diffs(poster[p].name # excel[i].name,
                  poster[p].time # excel[i].time,
                  poster[p].location # excel[i].location))
    ELSE [ serial      |-> excel[i].serialNo,
           excelEvent  |-> i,
           posterEvent |-> 0,
           status      |-> "missing_in_poster",
           diffs       |-> Diffs(TRUE, TRUE, TRUE) ]

\* the entry for the excel item at position i, p its pIndex; the fields of a
\* poster item are strings, as cleanedPosterData makes them, so that ?. never
\* meets undefined
ExcelEntry(excel, poster, i, p) ==
    IF p # 0
    THEN PairedEntry(i, excel[i], p, poster[p],
            Diffs(poster[p].name # excel[i].name,
                  RemoveSpace(poster[p].time) # RemoveSpace(excel[i].time),
                  RemoveSpace(poster[p].location) # RemoveSpace(excel[i].location)))
    ELSE [ serial      |-> excel[i].serialNo,
           excelEvent  |-> i,
           posterEvent |-> 0,
           status      |-> "missing_in_poster",
           diffs       |-> Diffs(TRUE, TRUE, TRUE) ]

\* for comparison: a loop that does not keep track of the items it has used
UsedForgotten(posterUsed, p) == posterUsed

\* posterUsed after posterUsed.add(pIndex), if an item was found
Used(posterUsed, p) == IF p # 0 THEN posterUsed \cup {p} ELSE posterUsed

\* excel.forEach from the item at position i on
RECURSIVE ExcelEntries(_, _, _, _, _)
ExcelEntries(excel, poster, i, posterUsed, results) ==
    IF i > Len(excel) THEN [results |-> results, posterUsed |-> posterUsed]
    ELSE ExcelEntries(excel, poster, i + 1,
            Used(posterUsed, pIndex(poster, posterUsed, excel[i])),
            Append(results,
                   ExcelEntry(excel, poster, i, pIndex(poster, posterUsed, excel[i]))))

\* poster.forEach from the item at position idx on
RECURSIVE ExtraEntries(_, _, _, _)
ExtraEntries(poster, idx, posterUsed, results) ==
    IF idx > Len(poster) THEN results
    ELSE ExtraEntries(poster, idx + 1, posterUsed,
            IF idx \in posterUsed THEN results
            ELSE Append(results,
                    [ serial      |-> IF poster[idx].serialNo # <<>>
                                      THEN poster[idx].serialNo ELSE <<"?">>,
                      excelEvent  |-> 0,
                      posterEvent |-> idx,
                      status      |-> "extra_in_poster",
                      diffs       |-> Diffs(TRUE, TRUE, TRUE) ]))

\* parseFloat(serial) || 9999 for a serial number without sign, point and
\* exponent: the number its leading digits write, 9999 if there are none or
\* the number is 0
SortKey(serial) ==
    IF DigitRunEnd(serial, 1) = 1 THEN 9999
    ELSE IF parseInt(SubSeq(serial, 1, DigitRunEnd(serial, 1) - 1)) = 0 THEN 9999
         ELSE parseInt(SubSeq(serial, 1, DigitRunEnd(serial, 1) - 1))

\* e put into the sorted entries behind those that do not sort after it
InsertSorted(sorted, e, k) ==
    SubSeq(sorted, 1, k) \o <<e>> \o SubSeq(sorted, k + 1, Len(sorted))

\* results.sort((a, b) => sa - sb), a stable sort: the first n entries sorted
RECURSIVE SortedEntries(_, _)
SortedEntries(results, n) ==
    IF n = 0 THEN <<>>
    ELSE InsertSorted(SortedEntries(results, n - 1), results[n],
            Cardinality({j \in 1..(n - 1) :
                            SortKey(results[j].serial) <= SortKey(results[n].serial)}))

\* results before the sort, from what the first loop left
UnsortedEntries(poster, first) == ExtraEntries(poster, 1, first.posterUsed, first.results)

\* for comparison: the entries left in the order the two loops pushed them
SortSkipped(results) == results

\* results.sort(...)
Sorted(results) == SortedEntries(results, Len(results))

\* validationResults
performValidation(excel, poster) ==
    Sorted(UnsortedEntries(poster, ExcelEntries(excel, poster, 1, {}, <<>>)))

(***************************************************************************)
(* SpecReconcile: performValidation called once on the events of a sheet   *)
(* and the items of a poster                                               *)
(***************************************************************************)
MaxExcel == 2       \* the most events of the sheet
MaxPoster == 2      \* the most items of the poster

Item(serialNo, name, time, location) ==
    [serialNo |-> serialNo, name |-> name, time |-> time, location |-> location]

\* events as handleExcelUpload keeps them: trimmed, with a name
ExcelItems ==
    { Item(serialNo, name, <<"t", "t">>, <<"L">>) :
        serialNo \in {<<"1">>, <<"2">>}, name \in {<<"A">>, <<"A", "B">>} }

\* items as analyzePoster cleans them: trimmed strings, empty for what the
\* poster does not show
PosterItems ==
    { Item(serialNo, name, <<"t", "t">>, <<"L">>) :
        serialNo \in {<<"1">>, <<"2">>, <<>>}, name \in {<<"A">>, <<"B">>, <<>>} }
    \cup { Item(<<"1">>, <<"A">>, <<"t", " ", "t">>, <<"L">>),
           Item(<<"1">>, <<"A">>, <<"t", "t">>, <<"M">>) }

InitReconcile ==
    /\ ValidatorUnused
    /\ events = <<>>
    /\ locations = <<>>
    /\ timeFormats = <<>>
    /\ reads = {}
    /\ clicks = 0
    /\ PosterUnused
    /\ call \in {[fn |-> "performValidation", excel |-> excel, poster |-> poster] :
                    excel \in UNION { [1..n -> ExcelItems] : n \in 0..MaxExcel },
                    poster \in UNION { [1..n -> PosterItems] : n \in 0..MaxPoster }}
    /\ ret = NoReturn

CallReconcile ==
    /\ call.fn = "performValidation"
    /\ ~ret.done
    /\ ret' = Return(performValidation(call.excel, call.poster))
    /\ UNCHANGED <<timeStr, formats, result, vpc, events, locations, timeFormats,
                   reads, clicks, call, posterVars>>

NextReconcile == CallReconcile

SpecReconcile == InitReconcile /\ [][NextReconcile]_vars

Reconciled == call.fn = "performValidation" /\ ret.done

\* the entries of the result, by position, and those that pair two items
Entries == 1..Len(ret.value)
Pairs == {k \in Entries : ret.value[k].excelEvent # 0 /\ ret.value[k].posterEvent # 0}

\* the secondary item the primary item at position i is paired with, 0 for none
PartnerOf(i) ==
    IF \E k \in Entries : ret.value[k].excelEvent = i
    THEN ret.value[CHOOSE k \in Entries : ret.value[k].excelEvent = i].posterEvent
    ELSE 0

\* the secondary items not taken by a primary item before the one at i
FreeFor(i) == (1..Len(call.poster)) \ {PartnerOf(j) : j \in 1..(i - 1)}

\* those of them with the serial number of the primary item at i, and those
\* whose non-empty name its name contains
SerialCandidates(i) ==
    {p \in FreeFor(i) : call.poster[p].serialNo = call.excel[i].serialNo}
NameCandidates(i) ==
    {p \in FreeFor(i) :
        call.poster[p].name # <<>> /\ includes(call.excel[i].name, call.poster[p].name)}

(***************************************************************************)
(* C19: reconciliation pairs greedily in primary-list order.  Each primary *)
(* item is paired with the first not-yet-used secondary item of its        *)
(* serialNo; only if there is none, with the first not-yet-used secondary  *)
(* item whose non-empty name is a substring of its name; a serial match is *)
(* preferred over a name match, and the choice made for an earlier primary *)
(* item is not revised for a later one.                                    *)
(***************************************************************************)
C19_GreedyPairing ==
    Reconciled =>
        \A i \in 1..Len(call.excel) :
            PartnerOf(i) = IF SerialCandidates(i) # {} THEN Earliest(SerialCandidates(i))
                           ELSE IF NameCandidates(i) # {} THEN Earliest(NameCandidates(i))
                           ELSE 0

\* a primary item took the secondary item of its serial number though one
\* matching by name comes before it, and a later primary item that matches
\* the taken item was left without it
C19_Witness ==
    /\ Reconciled
    /\ \E i \in 1..Len(call.excel) :
            /\ SerialCandidates(i) # {}
            /\ NameCandidates(i) # {}
            /\ Earliest(NameCandidates(i)) < Earliest(SerialCandidates(i))
            /\ PartnerOf(i) = Earliest(SerialCandidates(i))
            /\ \E j \in (i + 1)..Len(call.excel) :
                    /\ call.poster[PartnerOf(i)].serialNo = call.excel[j].serialNo
                    /\ PartnerOf(j) # PartnerOf(i)

(***************************************************************************)
(* C20: the reconciliation result partitions both inputs.  Every primary   *)
(* item appears in exactly one entry (match, mismatch, or missing with no  *)
(* secondary item), every secondary item in exactly one entry (paired with *)
(* one primary item, or alone as an extra entry with no primary item), no  *)
(* secondary item is paired with two primary items, and the number of      *)
(* entries is |primary| + |secondary| - |pairs|.                           *)
(***************************************************************************)
C20_ResultPartitions ==
    Reconciled =>
        /\ \A i \in 1..Len(call.excel) :
                /\ Cardinality({k \in Entries : ret.value[k].excelEvent = i}) = 1
                /\ \A k \in Entries : ret.value[k].excelEvent = i =>
                        IF ret.value[k].posterEvent = 0
                        THEN ret.value[k].status = "missing_in_poster"
                        ELSE ret.value[k].status \in {"match", "mismatch"}
        /\ \A p \in 1..Len(call.poster) :
                /\ Cardinality({k \in Entries : ret.value[k].posterEvent = p}) = 1
                /\ \A k \in Entries : ret.value[k].posterEvent = p =>
                        (ret.value[k].excelEvent = 0 <=> ret.value[k].status = "extra_in_poster")
        /\ \A k \in Entries :
                /\ ret.value[k].excelEvent \in 0..Len(call.excel)
                /\ ret.value[k].posterEvent \in 0..Len(call.poster)
                /\ ret.value[k].excelEvent # 0 \/ ret.value[k].posterEvent # 0
        /\ Len(ret.value) = Len(call.excel) + Len(call.poster) - Cardinality(Pairs)

\* a result with a pair, a primary item left alone and an extra secondary item
C20_Witness ==
    /\ Reconciled
    /\ Pairs # {}
    /\ \E k \in Entries : ret.value[k].status = "missing_in_poster"
    /\ \E k \in Entries : ret.value[k].status = "extra_in_poster"

(***************************************************************************)
(* SpecCompare: the end of analyzePoster, from the array the extraction    *)
(* answered with: the items cleaned, then performValidation on the events  *)
(* of the sheet and the cleaned items.  A field of an item of the answer   *)
(* is a string cell, or NoCell if the item lacks it.                       *)
(***************************************************************************)
\* String(field || '').trim()
CleanField(c) == IF Truthy(c) THEN trim(CellString(c)) ELSE <<>>

\* cleanedPosterData
cleanedPosterData(parsed) ==
    [ k \in 1..Len(parsed) |->
        Item(CleanField(parsed[k].serialNo), CleanField(parsed[k].name),
             CleanField(parsed[k].time), CleanField(parsed[k].location)) ]

\* events of the sheet with an empty time or location, and with white space
\* inside them
ComparedExcelItems ==
    { Item(<<"1">>, name, time, location) :
        name \in {<<"A">>, <<"A", "B">>},
        time \in {<<>>, <<"t", "t">>, <<"t", " ", "t">>},
        location \in {<<>>, <<"L">>} }

\* items of the answer, with fields missing, padded and different
ParsedItems ==
    { Item(serialNo, name, time, location) :
        serialNo \in {StrCell(<<"1">>), NoCell},
        name \in {StrCell(<<"A">>), StrCell(<<"B">>), NoCell},
        time \in {NoCell, StrCell(<<"t", "t">>), StrCell(<<" ", "t", " ", "t">>), StrCell(<<"u">>)},
        location \in {NoCell, StrCell(<<"L">>), StrCell(<<"M">>), StrCell(<<" ">>)} }

InitCompare ==
    /\ ValidatorUnused
    /\ events = <<>>
    /\ locations = <<>>
    /\ timeFormats = <<>>
    /\ reads = {}
    /\ clicks = 0
    /\ PosterUnused
    /\ call \in {[fn |-> "analyzePoster", excel |-> <<e>>, parsed |-> <<p>>] :
                    e \in ComparedExcelItems, p \in ParsedItems}
    /\ ret = NoReturn

\* setPosterData(cleanedPosterData); performValidation(excelData, cleanedPosterData)
CallCompare ==
    /\ call.fn = "analyzePoster"
    /\ ~ret.done
    /\ ret' = Return([ posterData |-> cleanedPosterData(call.parsed),
                       validationResults |->
                            performValidation(call.excel, cleanedPosterData(call.parsed)) ])
    /\ UNCHANGED <<timeStr, formats, result, vpc, events, locations, timeFormats,
                   reads, clicks, call, posterVars>>

NextCompare == CallCompare

SpecCompare == InitCompare /\ [][NextCompare]_vars

Compared == call.fn = "analyzePoster" /\ ret.done

\* the entries that pair an event of the sheet with an item of the poster
ComparedPairs ==
    {k \in 1..Len(ret.value.validationResults) :
        /\ ret.value.validationResults[k].excelEvent # 0
        /\ ret.value.validationResults[k].posterEvent # 0}

\* the text without its white space
RECURSIVE Stripped(_)
Stripped(s) ==
    IF s = <<>> THEN <<>>
    ELSE IF Head(s) \in WhiteSpace THEN Stripped(Tail(s))
    ELSE <<Head(s)>> \o Stripped(Tail(s))

\* the text of a field of the answer, empty for a field the item lacks
TextOf(c) == IF c = NoCell THEN <<>> ELSE c.s

\* the flags the entry is to carry for the event e, the cleaned item p and
\* the item of the answer it was cleaned from
FlagsFor(entry, e, p, answered) ==
    /\ entry.diffs.name <=> (p.name # e.name)
    /\ entry.diffs.time <=> (Stripped(TextOf(answered.time)) # Stripped(e.time))
    /\ entry.diffs.location <=>
            (Stripped(TextOf(answered.location)) # Stripped(e.location))
    /\ entry.status = IF entry.diffs.name \/ entry.diffs.time \/ entry.diffs.location
                      THEN "mismatch" ELSE "match"

(***************************************************************************)
(* C21: for a paired entry the name difference flag is set exactly when    *)
(* the two names differ as strings, the time and location flags exactly    *)
(* when the two values differ after removing all whitespace (a secondary   *)
(* item that lacks the time or location field being compared as the empty  *)
(* string), and the status is "match" if and only if none of the three     *)
(* flags is set, otherwise "mismatch".                                     *)
(***************************************************************************)
C21_FieldDifferences ==
    Compared =>
        \A k \in ComparedPairs :
            FlagsFor(ret.value.validationResults[k],
                     call.excel[ret.value.validationResults[k].excelEvent],
                     ret.value.posterData[ret.value.validationResults[k].posterEvent],
                     call.parsed[ret.value.validationResults[k].posterEvent])

\* an item of the answer that lacks its location and writes its time with
\* other white space is paired with an event without location, and matches
C21_Witness ==
    /\ Compared
    /\ \E k \in ComparedPairs :
            /\ call.parsed[ret.value.validationResults[k].posterEvent].location = NoCell
            /\ call.parsed[ret.value.validationResults[k].posterEvent].time
                    = StrCell(<<" ", "t", " ", "t">>)
            /\ call.excel[ret.value.validationResults[k].excelEvent].time = <<"t", "t">>
            /\ ret.value.validationResults[k].status = "match"

(***************************************************************************)
(* SpecOrder: performValidation called once on events and items whose      *)
(* serial numbers are 0, small, large, or no number at all                 *)
(***************************************************************************)
TenThousand == <<"1", "0", "0", "0", "0">>

\* events of the sheet; a serial number "0" is a text cell "0" of the sheet
OrderedExcelItems ==
    { Item(serialNo, <<"A">>, <<"t", "t">>, <<"L">>) :
        serialNo \in {<<"0">>, <<"2">>, TenThousand, <<"A">>} }

\* items of the poster no event is paired with
OrderedPosterItems ==
    { Item(serialNo, <<"B">>, <<"t", "t">>, <<"L">>) :
        serialNo \in {<<"3">>, TenThousand, <<>>} }

InitOrder ==
    /\ ValidatorUnused
    /\ events = <<>>
    /\ locations = <<>>
    /\ timeFormats = <<>>
    /\ reads = {}
    /\ clicks = 0
    /\ PosterUnused
    /\ call \in {[fn |-> "performValidation", excel |-> excel, poster |-> poster] :
                    excel \in UNION { [1..n -> OrderedExcelItems] : n \in 0..MaxExcel },
                    poster \in UNION { [1..n -> OrderedPosterItems] : n \in 0..MaxPoster }}
    /\ ret = NoReturn

SpecOrder == InitOrder /\ [][NextReconcile]_vars

\* the serial number begins with a number
Parses(serial) == serial # <<>> /\ Head(serial) \in Digits

\* that number
NumberOf(serial) == parseInt(SubSeq(serial, 1, DigitRunEnd(serial, 1) - 1))

\* where the entry stood before the sort: the entries of the events in the
\* order of the sheet, then those of the items left over in the order of the
\* poster
PlaceBefore(entry) ==
    IF entry.excelEvent # 0 THEN entry.excelEvent
    ELSE Len(call.excel) + entry.posterEvent

\* the entry a comes before the entry b wherever the two are
Precedes(a, b) ==
    \A j, k \in Entries : ret.value[j] = a /\ ret.value[k] = b => j < k

(***************************************************************************)
(* C22: the reconciliation output is ordered ascending by the entry's      *)
(* serial parsed as a number; every entry whose serial cannot be parsed as *)
(* a number comes after every entry whose serial can be parsed (whatever   *)
(* its numeric value, including 0 and values of 10000 or more), and        *)
(* entries with equal sort keys keep their original relative order.        *)
(***************************************************************************)
C22_OrderedBySerial ==
    Reconciled =>
        \A j, k \in Entries :
            /\ (/\ Parses(ret.value[j].serial)
                /\ Parses(ret.value[k].serial)
                /\ NumberOf(ret.value[j].serial) < NumberOf(ret.value[k].serial)) => j < k
            /\ (Parses(ret.value[j].serial) /\ ~Parses(ret.value[k].serial)) => j < k
            /\ (/\ Parses(ret.value[j].serial) = Parses(ret.value[k].serial)
                /\ Parses(ret.value[j].serial) =>
                        NumberOf(ret.value[j].serial) = NumberOf(ret.value[k].serial)
                /\ PlaceBefore(ret.value[j]) < PlaceBefore(ret.value[k])) => j < k

\* the key the entries are in fact ordered by: the number, but 9999 for a
\* serial that is no number and for the number 0
KeyOf(serial) ==
    IF Parses(serial) /\ NumberOf(serial) # 0 THEN NumberOf(serial) ELSE 9999

\* the output is in ascending order of that key, and entries of the same key
\* keep their order
OrderedByKey ==
    Reconciled =>
        \A j, k \in Entries :
            /\ KeyOf(ret.value[j].serial) < KeyOf(ret.value[k].serial) => j < k
            /\ (/\ KeyOf(ret.value[j].serial) = KeyOf(ret.value[k].serial)
                /\ PlaceBefore(ret.value[j]) < PlaceBefore(ret.value[k])) => j < k

\* an entry of serial 0 behind one of serial 2, and one of serial 10000
\* behind one that is no number
OrderedByKeyReached ==
    /\ Reconciled
    /\ \E j, k \in Entries :
            j < k /\ ret.value[j].serial = <<"2">> /\ ret.value[k].serial = <<"0">>
    /\ \E j, k \in Entries :
            j < k /\ ~Parses(ret.value[j].serial) /\ ret.value[k].serial = TenThousand

(***************************************************************************)
(* C23: in the reconciliation output every "extra" entry (secondary-only   *)
(* item, primary item null) appears after all entries derived from primary *)
(* items; one item present in both lists with equal serial and identical   *)
(* fields gives a single "match" entry.                                    *)
(***************************************************************************)
ExtraEntriesAt == {k \in Entries : ret.value[k].excelEvent = 0}
PrimaryEntriesAt == {k \in Entries : ret.value[k].excelEvent # 0}

\* the same item, alone in each list, gives one entry, and it is a match
SingleMatch ==
    (Len(call.excel) = 1 /\ call.poster = call.excel) =>
        Len(ret.value) = 1 /\ ret.value[1].status = "match"

C23_ExtrasTrail ==
    Reconciled =>
        /\ \A x \in ExtraEntriesAt, k \in PrimaryEntriesAt : k < x
        /\ SingleMatch

\* as it is: an extra entry stands behind the primary entries whose key is
\* not greater than its own, and before those whose key is greater
C23_ExtrasByKey ==
    Reconciled =>
        /\ \A x \in ExtraEntriesAt, k \in PrimaryEntriesAt :
                k < x <=> KeyOf(ret.value[k].serial) <= KeyOf(ret.value[x].serial)
        /\ SingleMatch

\* an extra entry before a primary entry, and another behind it
C23_Witness ==
    /\ Reconciled
    /\ \E x, y \in ExtraEntriesAt, k \in PrimaryEntriesAt : x < k /\ k < y

\* one item in both lists gave a single match
SingleMatchReached ==
    /\ Reconciled
    /\ Len(call.excel) = 1
    /\ call.poster = call.excel
    /\ ret.value = <<[ serial |-> call.excel[1].serialNo, excelEvent |-> 1, posterEvent |-> 1,
                       status |-> "match", diffs |-> Diffs(FALSE, FALSE, FALSE) ]>>

(***************************************************************************)
(* SpecFormats: the time format page of the App, the rule library after    *)
(* the operator added and removed rules, with the last request in call     *)
(***************************************************************************)
MaxAdded == 3       \* the most rules added to the built-in ones

\* patterns typed on the page: new ones, that of a built-in rule, and one
\* that does not compile
SubmittedPatterns ==
    {UnanchoredRule.pattern, ZhiRangeRule.pattern, INITIAL_TIME_FORMATS[3].pattern,
     MalformedRule.pattern}

Request(fn, id, pattern) ==
    [fn |-> fn, id |-> id, pattern |-> pattern, before |-> timeFormats]

InitFormats ==
    /\ ValidatorUnused
    /\ events = <<>>
    /\ locations = [i \in 1..Len(initialData) |-> [id |-> i, name |-> initialData[i]]]
    /\ timeFormats = INITIAL_TIME_FORMATS
    /\ reads = {}
    /\ clicks = 0
    /\ PosterUnused
    /\ CallUnused

\* TimeFormatLibrary.handleSubmit: onAddFormat unless new RegExp throws
FormatSubmitted ==
    \E pattern \in SubmittedPatterns :
        /\ Len(timeFormats) < Len(INITIAL_TIME_FORMATS) + MaxAdded
        /\ IF RegExpThrows(pattern)
           THEN /\ UNCHANGED <<events, timeFormats>>
                /\ call' = Request("handleSubmit", 0, pattern)
           ELSE /\ addTimeFormat("custom", pattern)
                /\ call' = Request("addTimeFormat", FreshId(timeFormats), pattern)
        /\ UNCHANGED <<timeStr, formats, result, vpc, locations, reads, clicks, ret, posterVars>>

\* for comparison: a page with the remove button on every rule
AnyFormatRemoved ==
    \E i \in 1..Len(timeFormats) :
        /\ SetTimeFormats(SelectSeq(timeFormats, LAMBDA t : t.id # timeFormats[i].id))
        /\ call' = Request("removeTimeFormat", timeFormats[i].id, timeFormats[i].pattern)
        /\ UNCHANGED <<timeStr, formats, result, vpc, locations, reads, clicks, ret, posterVars>>

\* the remove button, rendered for the rules that are not system rules:
\* onRemoveFormat(fmt.id)
FormatRemoved ==
    \E i \in 1..Len(timeFormats) :
        /\ ~timeFormats[i].isSystem
        /\ SetTimeFormats(SelectSeq(timeFormats, LAMBDA t : t.id # timeFormats[i].id))
        /\ call' = Request("removeTimeFormat", timeFormats[i].id, timeFormats[i].pattern)
        /\ UNCHANGED <<timeStr, formats, result, vpc, locations, reads, clicks, ret, posterVars>>

NextFormats == FormatSubmitted \/ FormatRemoved

SpecFormats == InitFormats /\ [][NextFormats]_vars

\* the rules of the library fs other than the one with the id
Without(fs, id) == SelectSeq(fs, LAMBDA t : t.id # id)

(***************************************************************************)
(* C24: built-in time format rules are not user-removable.  After any      *)
(* sequence of addTimeFormat and removeTimeFormat operations available to  *)
(* the operator, all ten initial rules with isSystem=true are still in the *)
(* rule library with unchanged patterns; a remove request for a system     *)
(* rule leaves the library unchanged (the page has no such request: what   *)
(* a remove request takes away is one rule, and not a system rule).        *)
(***************************************************************************)
C24_SystemRulesKept ==
    /\ Len(INITIAL_TIME_FORMATS) = 10
    /\ \A i \in 1..Len(INITIAL_TIME_FORMATS) :
            /\ INITIAL_TIME_FORMATS[i].isSystem
            /\ \E k \in 1..Len(timeFormats) : timeFormats[k] = INITIAL_TIME_FORMATS[i]
    /\ call.fn = "removeTimeFormat" =>
            /\ \A k \in 1..Len(call.before) :
                    call.before[k].isSystem => \E j \in 1..Len(timeFormats) :
                                                    timeFormats[j] = call.before[k]
            /\ \E k \in 1..Len(call.before) :
                    /\ ~call.before[k].isSystem
                    /\ call.before[k].id = call.id
                    /\ timeFormats = Without(call.before, call.id)

\* a rule the operator added with the pattern of a built-in rule has been
\* removed again, another added rule is left
C24_Witness ==
    /\ call.fn = "removeTimeFormat"
    /\ call.pattern = INITIAL_TIME_FORMATS[3].pattern
    /\ Len(timeFormats) > Len(INITIAL_TIME_FORMATS)

(***************************************************************************)
(* SpecSidebar: the event list and the issue sidebar of the App.  The      *)
(* state is one the session has come to, the events validated against the  *)
(* libraries with some of their errors ignored; the operator then uses the *)
(* buttons of the sidebar and of the list, and call keeps the last request *)
(* with the events it found.                                               *)
(***************************************************************************)
MaxListed == 2      \* the most events in the list

PaddedBallHall == <<" ", "qiu", "guan", " ">>       \* 球馆 as typed into a row, with spaces
CultureBallHall == initialData[3]                   \* 文化宫球馆

\* libraries of the session: entries of the start removed, and a location
\* of a row put into the library from its card
SidebarLibraries ==
    { << [id |-> 2, name |-> OnlineCollection], [id |-> 3, name |-> CultureBallHall] >>,
      << [id |-> 2, name |-> OnlineCollection], [id |-> 15, name |-> PaddedBallHall] >> }

Listed(serialNo, time, location, ignoredErrors) ==
    [ event |-> Item(serialNo, <<"A">>, time, location), ignoredErrors |-> ignoredErrors ]

\* rows as imported and edited, with the errors the operator ignored earlier
ListedEvents ==
    { Listed(serialNo, MonthDay(1, 1), location, ignoredErrors) :
        serialNo \in {<<"1">>, <<"2">>},
        location \in {BallHall, PaddedBallHall, <<>>},
        ignoredErrors \in {<<>>, <<"location">>} }
    \cup { Listed(<<"1">>, MonthDay(1, 1), OnlineCollection, <<>>),
           Listed(<<"2">>, <<"5", ".", "1">>, OnlineCollection, <<"serial">>),
           Listed(<<"1">>, <<"5", ".", "1">>, OnlineCollection, <<"time">>) }

\* the events of the list, validated, with their ignored errors
ListOf(rows, locs, tfs) ==
    [ i \in 1..Len(rows) |->
        [ validateEvent(rows[i].event, i, locs, tfs)
            EXCEPT !.ignoredErrors = rows[i].ignoredErrors ] ]

InitSidebar ==
    /\ ValidatorUnused
    /\ timeFormats = INITIAL_TIME_FORMATS
    /\ locations \in SidebarLibraries
    /\ \E rows \in UNION { [1..n -> ListedEvents] : n \in 0..MaxListed } :
            events = ListOf(rows, locations, timeFormats)
    /\ reads = {}
    /\ clicks = 0
    /\ PosterUnused
    /\ CallUnused

sidebarFrame == <<timeStr, formats, result, vpc, timeFormats, reads, clicks, ret, posterVars>>

\* the sidebar's buttons to ignore, as IgnoreError
SidebarIgnore ==
    /\ call.fn = "none"
    /\ \E type \in {"serial", "time", "location"} :
        \E S \in CASE type = "serial" -> {pendingSerialIssues} \ {{}}
                   [] type = "location" ->
                        {{j \in pendingLocationIssues : events[j].location = events[i].location} :
                            i \in {j \in pendingLocationIssues : events[j].location # <<>>}}
                   [] type = "time" -> {{i} : i \in pendingTimeIssues} :
            /\ events' = handleIgnoreError(events, S, type)
            /\ call' = [fn |-> "handleIgnoreError", type |-> type, targets |-> S,
                        before |-> events]
    /\ UNCHANGED <<locations, sidebarFrame>>

\* the buttons of the ignored view to restore, as RestoreError, pressed at
\* the start or after an ignore
SidebarRestore ==
    /\ call.fn \in {"none", "handleIgnoreError"}
    /\ \E type \in {"serial", "time", "location"} :
        \E S \in CASE type = "serial" -> {ignoredSerialIssues} \ {{}}
                   [] type = "location" -> {{i} : i \in ignoredLocationIssues}
                   [] type = "time" -> {{i} : i \in ignoredTimeIssues} :
            /\ events' = handleRestoreError(events, S, type)
            /\ call' = [fn |-> "handleRestoreError", type |-> type, targets |-> S,
                        before |-> events, last |-> call]
    /\ UNCHANGED <<locations, sidebarFrame>>

\* the button of the card of the pending serial issues
SidebarFixSerial ==
    /\ call.fn = "none"
    /\ pendingSerialIssues # {}
    /\ events' = fixSerialNumbers(events)
    /\ call' = [fn |-> "fixSerialNumbers", before |-> events]
    /\ UNCHANGED <<locations, sidebarFrame>>

\* the delete button of a row, pressed after the serial numbers were fixed
DeleteAfterFix ==
    /\ call.fn = "fixSerialNumbers"
    /\ \E i \in 1..Len(events) :
            /\ events' = onDelete(events, events[i].id)
            /\ call' = [fn |-> "onDelete", position |-> i, before |-> events]
    /\ UNCHANGED <<locations, sidebarFrame>>

\* the buttons of the unknown locations to put one of them, or all of them,
\* into the library, as AddLocationToLibrary
SidebarAddLocation ==
    /\ call.fn = "none"
    /\ \E names \in {uniqueInvalidLocations}
                    \cup {<<uniqueInvalidLocations[k]>> : k \in 1..Len(uniqueInvalidLocations)} :
          /\ names # <<>>
          /\ IF AddLocations(locations, locations, names) # locations
             THEN SetLocations(AddLocations(locations, locations, names))
             ELSE UNCHANGED <<events, locations>>
          /\ call' = [fn |-> "onAddLocationToLibrary", names |-> names, before |-> events]
    /\ UNCHANGED sidebarFrame

\* affectedEvents.forEach(evt => onUpdateEventLocation(evt.id, recommendation)),
\* from the event at position i on
RECURSIVE updateEventLocations(_, _, _, _)
updateEventLocations(evs, i, affectedEvents, recommendation) ==
    IF i > Len(evs) THEN evs
    ELSE updateEventLocations(
            IF i \in affectedEvents
            THEN handleUpdateEvent(evs, evs[i].id, "location", recommendation)
            ELSE evs,
            i + 1, affectedEvents, recommendation)

\* affectedEvents of the card of the location loc
affectedEvents(loc) == {j \in pendingLocationIssues : events[j].location = loc}

\* the button of a card that shows a recommendation
SidebarApplyRecommendation ==
    /\ call.fn = "none"
    /\ \E k \in 1..Len(uniqueInvalidLocations) :
            /\ getRecommendedLocation(uniqueInvalidLocations[k], locations) # Null
            /\ events' = updateEventLocations(events, 1,
                            affectedEvents(uniqueInvalidLocations[k]),
                            getRecommendedLocation(uniqueInvalidLocations[k], locations))
            /\ call' = [fn |-> "onUpdateEventLocation",
                        loc |-> uniqueInvalidLocations[k],
                        targets |-> affectedEvents(uniqueInvalidLocations[k]),
                        recommendation |->
                            getRecommendedLocation(uniqueInvalidLocations[k], locations),
                        before |-> events]
    /\ UNCHANGED <<locations, sidebarFrame>>

NextSidebar ==
    \/ SidebarIgnore
    \/ SidebarRestore
    \/ SidebarFixSerial
    \/ DeleteAfterFix
    \/ SidebarAddLocation
    \/ SidebarApplyRecommendation

SpecSidebar == InitSidebar /\ [][NextSidebar]_vars

\* the event as it is but for its ignoredErrors
SameButIgnored(e, b) == [e EXCEPT !.ignoredErrors = b.ignoredErrors] = b

\* how often the event holds the category among its ignored errors
TimesIgnored(e, type) ==
    Cardinality({k \in 1..Len(e.ignoredErrors) : e.ignoredErrors[k] = type})

\* the last request was to ignore or to restore
IgnoredOrRestored == call.fn \in {"handleIgnoreError", "handleRestoreError"}

\* a restore that followed an ignore of the same category
RestoredAfterIgnore ==
    /\ call.fn = "handleRestoreError"
    /\ call.last.fn = "handleIgnoreError"
    /\ call.last.type = call.type

(***************************************************************************)
(* C25: ignoring or restoring an error category on an event changes only   *)
(* that event's ignoredErrors: its isTimeValid, isLocationValid,           *)
(* validationMessage, serialNo, name, time and location and every other    *)
(* event are unchanged; ignoring a category already ignored changes        *)
(* nothing (ignoredErrors holds each category at most once), and restore   *)
(* after ignore gives back the previous ignoredErrors.                     *)
(***************************************************************************)
C25_IgnoreChangesOnlyIgnored ==
    /\ \A i \in 1..Len(events), type \in {"serial", "time", "location"} :
            TimesIgnored(events[i], type) <= 1
    /\ IgnoredOrRestored =>
        /\ Len(events) = Len(call.before)
        /\ \A i \in 1..Len(events) :
            /\ SameButIgnored(events[i], call.before[i])
            /\ i \notin call.targets => events[i] = call.before[i]
            /\ (i \in call.targets /\ call.fn = "handleIgnoreError") =>
                    events[i].ignoredErrors =
                        IF TimesIgnored(call.before[i], call.type) > 0
                        THEN call.before[i].ignoredErrors
                        ELSE call.before[i].ignoredErrors \o <<call.type>>
            /\ (i \in call.targets /\ call.fn = "handleRestoreError") =>
                    /\ TimesIgnored(events[i], call.type) = 0
                    /\ \A type \in {"serial", "time", "location"} \ {call.type} :
                            TimesIgnored(events[i], type)
                                = TimesIgnored(call.before[i], type)
    /\ RestoredAfterIgnore =>
        \A i \in call.targets \cap call.last.targets :
            events[i].ignoredErrors = call.last.before[i].ignoredErrors

\* a location error was ignored on an event that has another error ignored,
\* while a second event of the list was left alone, and then restored
C25_Witness ==
    /\ RestoredAfterIgnore
    /\ Len(events) > 1
    /\ \E i \in call.targets \cap call.last.targets :
            /\ events[i].ignoredErrors # <<>>
            /\ call.before[i].ignoredErrors # events[i].ignoredErrors
            /\ ~events[i].isLocationValid \/ ~events[i].isTimeValid

\* the event as it is but for its serialNo
SameButSerial(e, b) == [e EXCEPT !.serialNo = b.serialNo] = b

\* the events with a serial issue, pending or ignored
SerialIssues == pendingSerialIssues \cup ignoredSerialIssues

(***************************************************************************)
(* C26: an event has a serial issue exactly when its serialNo differs, as  *)
(* a string, from the decimal text of its 1-based position in the current  *)
(* list.  Immediately after fixSerialNumbers every event's serialNo equals *)
(* that text, so there is no pending or ignored serial issue, and name,    *)
(* time, location, validity fields and ignoredErrors of all events are     *)
(* unchanged; deleting a non-last event afterwards makes every later event *)
(* a serial issue again.                                                   *)
(***************************************************************************)
C26_SerialIssuesAndFix ==
    /\ SerialIssues = {i \in 1..Len(events) : events[i].serialNo # String(i)}
    /\ call.fn = "fixSerialNumbers" =>
        /\ Len(events) = Len(call.before)
        /\ \A i \in 1..Len(events) :
                /\ events[i].serialNo = String(i)
                /\ SameButSerial(events[i], call.before[i])
        /\ SerialIssues = {}
    /\ call.fn = "onDelete" =>
        /\ Len(events) = Len(call.before) - 1
        /\ \A i \in 1..Len(events) :
                events[i] = call.before[IF i < call.position THEN i ELSE i + 1]
        /\ SerialIssues = call.position..Len(events)

\* the first of two events was deleted after the fix, and the serial issue
\* of the event left is one the operator had ignored
C26_Witness ==
    /\ call.fn = "onDelete"
    /\ call.position < Len(call.before)
    /\ ignoredSerialIssues # {}
    /\ events[1].serialNo = <<"2">>

\* the locations of the cards whose button was pressed
AddedNames == {call.names[k] : k \in 1..Len(call.names)}

(***************************************************************************)
(* C27: adding an unknown location to the library from the issue sidebar   *)
(* resolves it.  For every event location string shown as an               *)
(* unknown-location card (including locations typed by the operator with   *)
(* leading or trailing spaces), after the operator presses "add to         *)
(* library" (single or "add all") and re-validation has run, every event   *)
(* whose location is that string has isLocationValid = true.               *)
(***************************************************************************)
C27_AddResolvesLocation ==
    call.fn = "onAddLocationToLibrary" =>
        \A i \in 1..Len(events) :
            events[i].location \in AddedNames => events[i].isLocationValid

\* as it is: the events are resolved whose location has no space at its ends
AddResolvesTrimmedLocation ==
    call.fn = "onAddLocationToLibrary" =>
        \A i \in 1..Len(events) :
            (events[i].location \in AddedNames /\ trim(events[i].location) = events[i].location)
                => events[i].isLocationValid

\* two events of one unknown location were resolved by one button
AddResolvesTrimmedLocationReached ==
    /\ call.fn = "onAddLocationToLibrary"
    /\ Len(events) = 2
    /\ \A i \in 1..2 :
            /\ events[i].location = BallHall
            /\ ~call.before[i].isLocationValid
            /\ events[i].isLocationValid

(***************************************************************************)
(* C28: applying a location suggestion always fixes the event.  Whenever   *)
(* getRecommendedLocation(location, library) returns a non-null name r for *)
(* a pending unknown location, setting the affected events' location to r  *)
(* (updateEventLocation) leaves each of them with isLocationValid = true   *)
(* under the same library, for every library reachable through the         *)
(* application's add/remove operations.                                    *)
(***************************************************************************)
C28_SuggestionFixesEvent ==
    call.fn = "onUpdateEventLocation" =>
        \A i \in call.targets :
            /\ events[i].location = call.recommendation
            /\ events[i].isLocationValid

\* as it is: the event is fixed if the recommended name has no space at its
\* ends
TrimmedSuggestionFixesEvent ==
    call.fn = "onUpdateEventLocation" =>
        \A i \in call.targets :
            /\ events[i].location = call.recommendation
            /\ trim(call.recommendation) = call.recommendation => events[i].isLocationValid

\* two events of one card got the recommended name and are valid
TrimmedSuggestionFixesEventReached ==
    /\ call.fn = "onUpdateEventLocation"
    /\ Cardinality(call.targets) = 2
    /\ \A i \in call.targets :
            /\ ~call.before[i].isLocationValid
            /\ events[i].location = CultureBallHall
            /\ events[i].isLocationValid

\* App: hasIssues
hasIssues ==
    \E i \in 1..Len(events) :
        SerialWrong(events, i) \/ ~events[i].isTimeValid \/ ~events[i].isLocationValid

\* IssueSidebar: pendingCount and ignoredCount
pendingCount ==
    (IF pendingSerialIssues # {} THEN 1 ELSE 0)
        + Cardinality(pendingTimeIssues) + Len(uniqueInvalidLocations)
ignoredCount ==
    (IF ignoredSerialIssues # {} THEN 1 ELSE 0)
        + Cardinality(ignoredTimeIssues) + Cardinality(ignoredLocationIssues)

\* the event at position i belongs to a card of the unknown locations
OnLocationCard(i) ==
    \E k \in 1..Len(uniqueInvalidLocations) : uniqueInvalidLocations[k] = events[i].location

(***************************************************************************)
(* C29: the issue sidebar accounts for every flagged event.  Whenever      *)
(* App's hasIssues is true (some event has a wrong serial, invalid time or *)
(* invalid location), the sidebar's pendingCount + ignoredCount is greater *)
(* than 0, and every event with an invalid, un-ignored location (including *)
(* an empty location) belongs to some pending unknown-location card, so    *)
(* the operator can always act on or ignore it.                            *)
(***************************************************************************)
C29_SidebarAccountsForIssues ==
    /\ hasIssues => pendingCount + ignoredCount > 0
    /\ \A i \in pendingLocationIssues : OnLocationCard(i)

\* as it is: the events whose location is not empty are accounted for
SidebarAccountsForNonEmpty ==
    /\ (\E i \in 1..Len(events) :
            \/ SerialWrong(events, i)
            \/ ~events[i].isTimeValid
            \/ ~events[i].isLocationValid /\ events[i].location # <<>>)
        => pendingCount + ignoredCount > 0
    /\ \A i \in pendingLocationIssues : events[i].location # <<>> => OnLocationCard(i)

\* the only issue is the unknown location of one event, and it has its card
SidebarAccountsForNonEmptyReached ==
    /\ Len(uniqueInvalidLocations) = 1
    /\ Cardinality(pendingLocationIssues) = 1
    /\ pendingCount = 1
    /\ ignoredCount = 0
    /\ hasIssues

(***************************************************************************)
(* SpecPoster: the PosterValidator page.  The operator uploads a poster    *)
(* and a sheet, clears them, and starts the extraction; FileReader reads   *)
(* and the generateContent request finish later, in any order.  An event   *)
(* of excelData is written with the four fields performValidation reads.   *)
(* process.env.API_KEY is configured.                                      *)
(***************************************************************************)
\* row[k] of a row that may be shorter
RowCell(row, k) == IF k <= Len(row) THEN row[k] ELSE NoCell

\* data.findIndex(row => row.some(cell => String(cell).includes('序号'))),
\* counted from 1, and 0 for -1
RECURSIVE headerIndexFrom(_, _)
headerIndexFrom(data, r) ==
    IF r > Len(data) THEN 0
    ELSE IF \E c \in 1..Len(data[r]) : includes(CellString(data[r][c]), KwSerial) THEN r
    ELSE headerIndexFrom(data, r + 1)

\* the position of the first row read: startRow is 1, or headerIndex + 1
FirstDataRow(data) ==
    IF headerIndexFrom(data, 1) # 0 THEN headerIndexFrom(data, 1) + 1 ELSE 2

\* the loop of handleExcelUpload from row i on: rows shorter than two cells
\* and rows without a name are left out
RECURSIVE UploadedFrom(_, _)
UploadedFrom(data, i) ==
    IF i > Len(data) THEN <<>>
    ELSE IF Len(data[i]) < 2 \/ CleanField(RowCell(data[i], 2)) = <<>>
         THEN UploadedFrom(data, i + 1)
    ELSE <<Item(CleanField(RowCell(data[i], 1)), CleanField(RowCell(data[i], 2)),
                CleanField(RowCell(data[i], 3)), CleanField(RowCell(data[i], 4)))>>
            \o UploadedFrom(data, i + 1)

\* events of handleExcelUpload
UploadedEvents(data) == UploadedFrom(data, FirstDataRow(data))

\* sheets for comparison: two that differ in the location of their event,
\* the first with a short row and a row without a name, and a header alone
PosterSheets ==
    { << HeaderRow,
         <<StrCell(<<"1">>), StrCell(<<" ", "A">>), StrCell(<<"t", "t">>), StrCell(<<"L">>)>>,
         <<StrCell(<<"2">>)>>,
         <<NumCell(3), NoCell, StrCell(<<"t", "t">>), StrCell(<<"L">>)>> >>,
      << HeaderRow,
         <<NumCell(1), StrCell(<<"A">>), StrCell(<<"t", "t">>), StrCell(<<"M">>)>> >>,
      << HeaderRow >> }

\* a workbook XLSX.read can parse, with its first sheet, or one it cannot
PosterFiles ==
    {[parses |-> TRUE, data |-> sh] : sh \in PosterSheets}
        \cup {[parses |-> FALSE, data |-> <<>>]}

\* image files: the data URL FileReader makes of them, and whether
\* file.size > 5 * 1024 * 1024
ImageFiles ==
    { [url |-> "data:A", large |-> FALSE],
      [url |-> "data:B", large |-> FALSE],
      [url |-> "data:C", large |-> TRUE] }

\* JSON.parse(response.text) for an image, when the model answers with an
\* array: what the poster shows
Extraction(image) ==
    IF image = "data:A"
    THEN << Item(StrCell(<<"1">>), StrCell(<<"A">>), StrCell(<<"t", "t">>), StrCell(<<"L">>)) >>
    ELSE << Item(StrCell(<<"1">>), StrCell(<<"A", " ">>), StrCell(<<"t", "t">>), StrCell(<<"M">>)),
            Item(NoCell, StrCell(<<"B">>), NoCell, NoCell) >>

\* how a request ends: with an array, with JSON that is no array, or with an
\* exception (no text, no JSON, no connection)
Outcomes == {"array", "other", "error"}

InitPoster ==
    /\ ValidatorUnused
    /\ events = <<>>
    /\ locations = <<>>
    /\ timeFormats = <<>>
    /\ reads = {}
    /\ clicks = 0
    /\ PosterUnused
    /\ CallUnused

posterFrame == <<timeStr, formats, result, vpc, events, locations, timeFormats, clicks, call, ret>>

\* handleExcelUpload up to reader.readAsArrayBuffer(file); the upload area is
\* rendered while excelData is empty
ExcelPicked ==
    \E file \in PosterFiles :
        /\ excelData = <<>>
        /\ Cardinality(reads) < MaxReads
        /\ reads' = reads \cup {[kind |-> "excel", file |-> file]}
        /\ UNCHANGED <<posterFrame, posterVars>>

\* reader.onload of handleExcelUpload; a workbook that does not parse is
\* caught and alerted
ExcelLoaded ==
    \E r \in reads :
        /\ r.kind = "excel"
        /\ reads' = reads \ {r}
        /\ excelData' = IF r.file.parses THEN UploadedEvents(r.file.data) ELSE excelData
        /\ validationResults' = IF r.file.parses THEN NoResults ELSE validationResults
        /\ UNCHANGED <<posterFrame, posterImage, posterData, isAnalyzing, requests>>

\* handleImageUpload up to reader.readAsDataURL(file); the upload area is
\* rendered while there is no poster, and a large file is alerted and not read
ImagePicked ==
    \E file \in ImageFiles :
        /\ posterImage = NoImage
        /\ Cardinality(reads) < MaxReads
        /\ reads' = IF file.large THEN reads
                    ELSE reads \cup {[kind |-> "image", file |-> file]}
        /\ UNCHANGED <<posterFrame, posterVars>>

\* reader.onload of handleImageUpload
ImageLoaded ==
    \E r \in reads :
        /\ r.kind = "image"
        /\ reads' = reads \ {r}
        /\ posterImage' = r.file.url
        /\ posterData' = <<>>
        /\ validationResults' = NoResults
        /\ UNCHANGED <<posterFrame, excelData, isAnalyzing, requests>>

\* the button over the poster
ClearPoster ==
    /\ posterImage # NoImage
    /\ posterImage' = NoImage
    /\ validationResults' = NoResults
    /\ UNCHANGED <<posterFrame, reads, excelData, posterData, isAnalyzing, requests>>

\* the button over the loaded sheet
ClearExcel ==
    /\ Len(excelData) > 0
    /\ excelData' = <<>>
    /\ validationResults' = NoResults
    /\ UNCHANGED <<posterFrame, reads, posterImage, posterData, isAnalyzing, requests>>

\* disabled={!posterImage || excelData.length === 0 || isAnalyzing}
AnalyzeEnabled == posterImage # NoImage /\ Len(excelData) > 0 /\ ~isAnalyzing

\* analyzePoster up to the await: the call keeps the posterImage and the
\* excelData of the render it was made in
Analyze ==
    /\ AnalyzeEnabled
    /\ isAnalyzing' = TRUE
    /\ requests' = requests \cup {[posterImage |-> posterImage, excelData |-> excelData]}
    /\ UNCHANGED <<posterFrame, reads, posterImage, excelData, posterData, validationResults>>

\* what analyzePoster sets after the await
AnsweredPosterData(r, outcome, shown) ==
    IF outcome = "array" THEN cleanedPosterData(Extraction(r.posterImage)) ELSE shown
AnsweredResults(r, outcome, shown) ==
    IF outcome = "array"
    THEN Results(performValidation(r.excelData, cleanedPosterData(Extraction(r.posterImage))))
    ELSE shown

\* analyzePoster from the await on, with its finally
AnalysisAnswered ==
    \E r \in requests, outcome \in Outcomes :
        /\ requests' = requests \ {r}
        /\ posterData' = AnsweredPosterData(r, outcome, posterData)
        /\ validationResults' = AnsweredResults(r, outcome, validationResults)
        /\ isAnalyzing' = FALSE
        /\ UNCHANGED <<posterFrame, reads, posterImage, excelData>>

NextPoster ==
    \/ ExcelPicked
    \/ ExcelLoaded
    \/ ImagePicked
    \/ ImageLoaded
    \/ ClearPoster
    \/ ClearExcel
    \/ Analyze
    \/ AnalysisAnswered

SpecPoster == InitPoster /\ [][NextPoster]_vars

\* the results performValidation gives for the loaded sheet and the
\* extraction of the loaded poster
ResultsOfLoaded ==
    Results(performValidation(excelData, cleanedPosterData(Extraction(posterImage))))

(***************************************************************************)
(* C30: in PosterValidator, displayed reconciliation results always belong *)
(* to the data currently loaded: whenever validationResults is non-null it *)
(* was computed from the current excelData and from the extraction of the  *)
(* current poster image, also when an extraction finishes after the sheet  *)
(* or the poster was cleared or replaced; at most one extraction is in     *)
(* flight and isAnalyzing is false when none is.                           *)
(***************************************************************************)
C30_ResultsBelongToLoadedData ==
    /\ validationResults.shown =>
            /\ posterImage # NoImage
            /\ validationResults = ResultsOfLoaded
    /\ Cardinality(requests) <= 1
    /\ isAnalyzing <=> requests # {}

\* as it is: at most one extraction is in flight, and isAnalyzing tells
\* whether one is
OneExtractionInFlight ==
    /\ Cardinality(requests) <= 1
    /\ isAnalyzing <=> requests # {}

\* a second extraction runs after the first one ended
OneExtractionInFlightReached ==
    /\ isAnalyzing
    /\ Cardinality(requests) = 1
    /\ validationResults.shown

\* results are shown for a sheet that was cleared while the request ran
ResultsOfClearedSheetReached ==
    /\ validationResults.shown
    /\ excelData = <<>>
    /\ ~isAnalyzing

\* results are shown for a poster that was cleared while the request ran
ResultsOfClearedPosterReached ==
    /\ validationResults.shown
    /\ posterImage = NoImage
    /\ ~isAnalyzing

====
